---- MODULE Spec2Model ----
(***************************************************************************)
(* Model of the equipment-tracker backend: the /api/search handler of      *)
(* server.js, searchODIN / searchODINWithModal / closeAssetModal of        *)
(* odinScraper.js (first revision in the file, lines 1-936) and the news   *)
(* aggregation of googleNewsHelper.js.                                     *)
(*                                                                         *)
(* The target page is the environment: how it reacts to a click, a key     *)
(* press or a wait is a nondeterministic choice, and so is whether a       *)
(* puppeteer call rejects.                                                 *)
(***************************************************************************)
EXTENDS Integers, Sequences, FiniteSets, TLC

\* ---------------------------------------------------------------- bounds
\* Largest number of result cards the page shows.
MaxCards == 2
\* Largest number of '.asset-detail-modal' nodes the page holds at once.
MaxModals == 2
\* Largest number of tabs an overlay shows.
MaxTabs == 2
\* Secondary pages the site opens during one query.
MaxPopups == 2
\* Readings of the clock, in steps of half a second.
MaxClock == 2

\* ------------------------------------------------------ program constants
\* odinScraper.js:397  Math.min(cards.length, 10)
MaxCardsPerQuery == 10
\* Cards a results page holds at most in the specification of the whole loop.
PageCards == 12
\* server.js:271 / 305  uniqueNews.slice(0, 20)
NewsCap == 20
\* server.js:208  fetchEquipmentNews(query, region, 15)
RegionalMax == 15
\* server.js:209  fetchEquipmentNews(query, 'US', 10)
GlobalMax == 10
\* googleNewsHelper.js:103  fetchGoogleNewsRSS(query, 'en', country, 5)
FeedMax == 5

VARIABLES
  pc,            \* position of the /api/search request
  browser,       \* "none" | "open" | "closed"
  gate,          \* disclaimer gate: "unknown" | "absent" | "dismissed" | "present"
  modal,         \* number of '.asset-detail-modal' nodes in the page
  cards,         \* cards.length of the last page.$$ of the card selector
  i,             \* loop index of searchODINWithModal
  results,       \* results array of searchODINWithModal
  modalData,     \* "unset" | "null" | "data": extractModalData's value
  tabKeys,       \* row labels and table first cells of the extracted tabs
  wm,            \* searchODINWithModal: "running" | "returned" | "threw"
  wmError,       \* message of the error searchODINWithModal throws
  cpc,           \* position inside closeAssetModal
  closeCaller,   \* "none" | "main" | "catch": the call site of closeAssetModal
  closeResult,   \* value returned by closeAssetModal
  closeButton,   \* "unknown" | "found" | "absent": page.$ of the close control
  escPresses,    \* Escape presses completed in this invocation
  attempted,     \* history: strategies attempted in this invocation, in order
  lastProbe,     \* history: last probe of the overlay in this invocation
  outcome,       \* history: per card "none" | "ok" | "null" | "threw"
  closeInvoked,  \* history: closeAssetModal was entered for the current card
  opsSinceClose, \* history: page operations since closeAssetModal last returned
  prevStuck,     \* history: the overlay was present when closeAssetModal last returned
  odinResult,    \* value of searchODIN
  fetched,       \* articles returned by the two fetchEquipmentNews calls
  apiResult,     \* body of the /api/search response
  container,     \* results container: "unknown" | "present" | "absent"
  npc,           \* record normalisation: "idle" | "collect" | "merged"
  nraw,          \* the objects {...cardData, ...modalData} parsed so far
  nresults,      \* their parseEquipmentData values: the results array
  nmerged,       \* mergedEquipment of searchODIN
  spc,           \* searchODIN of the file's second revision (line 1535):
                 \* "s_idle" | "s_scraped" | "s_threw" | "s_returned"
  rawResults,    \* what its searchODINWithModal returned
  scrapeResult,  \* what it returned
  reportStamps,  \* the lines of the report text that show the clock, in order
  rerun,         \* a second generateEnhancedReport on the same data
  popups,        \* secondary pages: "none" | "open" | "closed_by_handler" |
                 \* "left_open" | "closed_by_browser"
  activePage,    \* "none" | "page": the page the query issues its calls on
  gpc,           \* closeDisclaimerModal: 0 idle, n the strategy to run next
  gateButtons,   \* strategies whose button the gate element holds
  gateTried,     \* history: strategies run in this call, in order
  gateClicked,   \* history: the strategy that clicked a button, 0 when none
  gateReturn,    \* "none" | "true" | "false": value of closeDisclaimerModal
  gateRuns,      \* history: calls of closeDisclaimerModal in this session
  tpc,           \* position inside the tab loop of extractTabsContent
  tabIndex,      \* loop index of extractTabsContent
  tabCount,      \* tabButtons.length
  tabsDone,      \* history: how each tab processed in this overlay ended
  regionCall,    \* "none" | "fetchNewsByTopic" | "multiRegionSearch"
  regionFeeds,   \* the fetchGoogleNewsRSS outcome of each region of the call
  regionOut,     \* the value the call returned
  cache,         \* the NodeCache of server.js: entry stored under each key
  served,        \* history: the last /api/search request and its response
  reportRecord,  \* history: specification keys of the record behind the report
  reportData,    \* the data generateEnhancedReport was called with
  report         \* the report: its headings with the entries under each

vars == <<pc, browser, gate, modal, cards, i, results, modalData, tabKeys, wm,
          wmError, cpc,
          closeCaller, closeResult, closeButton, escPresses, attempted,
          lastProbe, outcome, closeInvoked, opsSinceClose, prevStuck,
          odinResult, fetched, apiResult, container,
          npc, nraw, nresults, nmerged,
          popups, activePage, reportStamps, rerun,
          spc, rawResults, scrapeResult,
          gpc, gateButtons, gateTried, gateClicked, gateReturn, gateRuns,
          tpc, tabIndex, tabCount, tabsDone,
          regionCall, regionFeeds, regionOut, cache, served,
          reportRecord, reportData, report>>

pageVars  == <<browser, gate, modal>>
loopVars  == <<cards, i, results, modalData, tabKeys, wm, wmError>>
closeVars == <<cpc, closeCaller, closeResult, closeButton, escPresses,
               attempted, lastProbe>>
histVars  == <<outcome, closeInvoked, opsSinceClose, prevStuck>>
apiVars   == <<odinResult, fetched, apiResult>>
normVars  == <<npc, nraw, nresults, nmerged>>
popupVars == <<popups, activePage>>
gateVars  == <<gpc, gateButtons, gateTried, gateClicked, gateReturn, gateRuns>>
tabVars   == <<tpc, tabIndex, tabCount, tabsDone>>
regionVars == <<regionCall, regionFeeds, regionOut>>
cacheVars == <<cache, served>>
reportVars == <<reportRecord, reportData, report, reportStamps, rerun>>
scrapeVars == <<spc, rawResults, scrapeResult>>
sideVars  == <<regionVars, cacheVars, reportVars, scrapeVars>>
mainVars  == <<pc, pageVars, loopVars, closeVars, histVars, apiVars, container,
               normVars, tabVars, gateVars, popupVars>>

PopupIds == 1..MaxPopups
NoPopups == [id \in PopupIds |-> "none"]

Min(a, b) == IF a < b THEN a ELSE b

CardIdx == 0..(MaxCards - 1)

\* --------------------------------------------------------- the target page
\* What the page may do to the overlay after a click on the close control, an
\* Escape press or a backdrop click: close it, or ignore the event.
PageReaction(m) == {0, m}

\* What the page may do after a card is activated: open an overlay (a further
\* node when one is already there), or nothing.
PageOpen(m) == {m, Min(m + 1, MaxModals)}

\* modal.remove() on document.querySelector('.asset-detail-modal'): the first
\* matching node is removed, any other stays.
RemoveFirst(m) == IF m > 0 THEN m - 1 ELSE 0

\* Key sets the tabs of an opened overlay may yield (gridRows labels and
\* first cells of table rows).
TabKeySets == {{}, {"Range", "Crew"}}

\* What the page may do during the settle delay after the forced removal:
\* nothing, or render the removed overlay again.
PageSettle(m, removed) == IF removed THEN {m, m + 1} ELSE {m}

\* ------------------------------------------------------- closeAssetModal
\* The call closeAssetModal(page): fresh locals, first statement is the
\* initial check of strategy 1.
CloseEnter(caller) ==
  /\ cpc' = "c_probe0"
  /\ closeCaller' = caller
  /\ closeButton' = "unknown"
  /\ escPresses' = 0
  /\ attempted' = <<>>
  /\ lastProbe' = "none"
  /\ UNCHANGED closeResult

\* The return to the caller: the locals of closeAssetModal are gone.
CloseLeave ==
  /\ cpc' = "idle"
  /\ closeCaller' = "none"
  /\ closeResult' = FALSE
  /\ closeButton' = "unknown"
  /\ escPresses' = 0
  /\ attempted' = <<>>
  /\ lastProbe' = "none"

\* Mutant of ProbeOverlay: the probe result is logged but an absent overlay
\* does not end the function.
ProbeOverlay_NoReturn(onPresent, onThrow) ==
  \E threw \in BOOLEAN :
    /\ lastProbe' = IF threw THEN "threw"
                    ELSE IF modal = 0 THEN "absent" ELSE "present"
    /\ cpc' = IF threw THEN onThrow ELSE onPresent
    /\ UNCHANGED closeResult

\* const stillOpen = await page.$('.asset-detail-modal'); if (!stillOpen)
\* return true: the probe rejects (caught by the strategy's catch, control
\* goes to onThrow), finds no overlay (return true) or finds it (onPresent).
ProbeOverlay(onPresent, onThrow) ==
  \E threw \in BOOLEAN :
    IF threw
      THEN /\ lastProbe' = "threw"
           /\ cpc' = onThrow
           /\ UNCHANGED closeResult
      ELSE IF modal = 0
        THEN /\ lastProbe' = "absent"
             /\ cpc' = "c_done"
             /\ closeResult' = TRUE
        ELSE /\ lastProbe' = "present"
             /\ cpc' = onPresent
             /\ UNCHANGED closeResult

\* Strategy 1, the check that a modal exists (lines 135-139).
CloseProbe0 ==
  /\ cpc = "c_probe0"
  /\ ProbeOverlay("c_btn", "c_s2")
  /\ UNCHANGED <<pc, pageVars, loopVars, histVars, apiVars,
                 closeCaller, closeButton, escPresses, attempted>>
  /\ UNCHANGED <<container, normVars, popupVars, sideVars, gateVars, tabVars>>

\* Strategy 1, the close control (lines 141-145): absent (or the lookup
\* rejects) and the strategy is skipped; found and clicked.
CloseButton ==
  /\ cpc = "c_btn"
  /\ \E btn \in {"found", "absent", "threw"} :
       IF btn # "found"
         THEN /\ closeButton' = IF btn = "absent" THEN "absent" ELSE "unknown"
              /\ cpc' = "c_s2"
              /\ UNCHANGED <<attempted, modal>>
         ELSE /\ closeButton' = "found"
              /\ attempted' = Append(attempted, 1)
              /\ \E clickThrew \in BOOLEAN :
                   IF clickThrew
                     THEN cpc' = "c_s2" /\ UNCHANGED modal
                     ELSE cpc' = "c_probe1" /\ modal' \in PageReaction(modal)
  /\ UNCHANGED <<pc, browser, gate, loopVars, histVars, apiVars,
                 closeCaller, closeResult, escPresses, lastProbe>>
  /\ UNCHANGED <<container, normVars, popupVars, sideVars, gateVars, tabVars>>

\* Strategy 1, verification (lines 148-154).
CloseProbe1 ==
  /\ cpc = "c_probe1"
  /\ ProbeOverlay("c_s2", "c_s2")
  /\ UNCHANGED <<pc, pageVars, loopVars, histVars, apiVars,
                 closeCaller, closeButton, escPresses, attempted>>
  /\ UNCHANGED <<container, normVars, popupVars, sideVars, gateVars, tabVars>>

\* Strategy 2, two Escape presses (lines 161-166); n is the number of presses
\* that completed before keyboard.press rejected (2: none rejected).
CloseEscape ==
  /\ cpc = "c_s2"
  /\ attempted' = Append(attempted, 2)
  /\ \E n \in 0..2 :
       /\ escPresses' = n
       /\ modal' \in (IF n = 0 THEN {modal} ELSE PageReaction(modal))
       /\ cpc' = IF n = 2 THEN "c_probe2" ELSE "c_s3"
  /\ UNCHANGED <<pc, browser, gate, loopVars, histVars, apiVars,
                 closeCaller, closeResult, closeButton, lastProbe>>
  /\ UNCHANGED <<container, normVars, popupVars, sideVars, gateVars, tabVars>>

\* Mutant of CloseProbe2: the Escape presses are not verified, control goes
\* on to the backdrop click.
CloseProbe2_Unverified ==
  /\ cpc = "c_probe2"
  /\ cpc' = "c_s3"
  /\ UNCHANGED <<pc, pageVars, loopVars, histVars, apiVars, closeCaller,
                 closeResult, closeButton, escPresses, attempted, lastProbe>>
  /\ UNCHANGED <<container, normVars, popupVars, sideVars, gateVars, tabVars>>

\* Strategy 2, verification (lines 169-175).
CloseProbe2 ==
  /\ cpc = "c_probe2"
  /\ ProbeOverlay("c_s3", "c_s3")
  /\ UNCHANGED <<pc, pageVars, loopVars, histVars, apiVars,
                 closeCaller, closeButton, escPresses, attempted>>
  /\ UNCHANGED <<container, normVars, popupVars, sideVars, gateVars, tabVars>>

\* Strategy 3, click on the backdrop (lines 181-189).
CloseBackdrop ==
  /\ cpc = "c_s3"
  /\ attempted' = Append(attempted, 3)
  /\ \E threw \in BOOLEAN :
       IF threw
         THEN cpc' = "c_s4" /\ UNCHANGED modal
         ELSE cpc' = "c_probe3" /\ modal' \in PageReaction(modal)
  /\ UNCHANGED <<pc, browser, gate, loopVars, histVars, apiVars,
                 closeCaller, closeResult, closeButton, escPresses, lastProbe>>
  /\ UNCHANGED <<container, normVars, popupVars, sideVars, gateVars, tabVars>>

\* Strategy 3, verification (lines 192-196).
CloseProbe3 ==
  /\ cpc = "c_probe3"
  /\ ProbeOverlay("c_s4", "c_s4")
  /\ UNCHANGED <<pc, pageVars, loopVars, histVars, apiVars,
                 closeCaller, closeButton, escPresses, attempted>>
  /\ UNCHANGED <<container, normVars, popupVars, sideVars, gateVars, tabVars>>

\* Strategy 4, forced removal (lines 202-215): the evaluate removes the first
\* overlay node, when there is one; when it rejects, control falls to
\* 'return false' (line 227).
CloseForce ==
  /\ cpc = "c_s4"
  /\ attempted' = Append(attempted, 4)
  /\ \E threw \in BOOLEAN :
       IF threw
         THEN /\ cpc' = "c_done"
              /\ closeResult' = FALSE
              /\ UNCHANGED modal
         ELSE /\ cpc' = IF modal > 0 THEN "c_removed" ELSE "c_none_removed"
              /\ modal' = RemoveFirst(modal)
              /\ UNCHANGED closeResult
  /\ UNCHANGED <<pc, browser, gate, loopVars, histVars, apiVars,
                 closeCaller, closeButton, escPresses, lastProbe>>
  /\ UNCHANGED <<container, normVars, popupVars, sideVars, gateVars, tabVars>>

\* Value returned after the forced removal (line 218): true, whatever the
\* page holds.
ForceCloseValue(m) == TRUE

\* Strategy 4, the settle delay and the return (lines 216-218).
CloseForceSettle ==
  /\ cpc \in {"c_removed", "c_none_removed"}
  /\ modal' \in PageSettle(modal, cpc = "c_removed")
  /\ cpc' = "c_done"
  /\ closeResult' = ForceCloseValue(modal')
  /\ UNCHANGED <<pc, browser, gate, loopVars, histVars, apiVars,
                 closeCaller, closeButton, escPresses, attempted, lastProbe>>
  /\ UNCHANGED <<container, normVars, popupVars, sideVars, gateVars, tabVars>>

CloseAssetModal ==
  \/ CloseProbe0 \/ CloseButton \/ CloseProbe1
  \/ CloseEscape \/ CloseProbe2
  \/ CloseBackdrop \/ CloseProbe3
  \/ CloseForce \/ CloseForceSettle

\* ---------------------------------------------------- searchODINWithModal
\* 'throw error' of the outer catch (lines 486-488) followed by the finally
\* block: the browser is closed when one was launched.
\* Mutant of Throw: there is no finally block, a throw leaves the function
\* at once.
Throw_NoFinally(msg) ==
  /\ wm' = "threw"
  /\ wmError' = msg
  /\ pc' = "odin"

Throw(msg) ==
  /\ wm' = "threw"
  /\ wmError' = msg
  /\ pc' = IF browser = "open" THEN "finally" ELSE "odin"

NoCard == [c \in CardIdx |-> "none"]

\* /api/search up to the call of searchODIN (server.js 187-206): a query is
\* given and the cache holds no entry for it.
ApiSearch ==
  /\ pc = "api"
  /\ pc' = "launch"
  /\ UNCHANGED <<pageVars, loopVars, closeVars, histVars, apiVars>>
  /\ UNCHANGED <<container, normVars, popupVars, sideVars, gateVars, tabVars>>

\* initBrowser (line 375): puppeteer.launch resolves or rejects.
InitBrowser ==
  /\ pc = "launch"
  /\ \E threw \in BOOLEAN :
       IF threw
         THEN Throw("launch failed") /\ UNCHANGED browser
         ELSE /\ browser' = "open"
              /\ pc' = "setup"
              /\ UNCHANGED <<wm, wmError>>
  /\ UNCHANGED <<gate, modal, cards, i, results, modalData, tabKeys,
                 closeVars, histVars, apiVars>>
  /\ UNCHANGED <<container, normVars, popupVars, sideVars, gateVars, tabVars>>

\* setupPage (line 376): the page is created and the popup handler is
\* registered on it (lines 27, 46-49).
SetupPage ==
  /\ pc = "setup"
  /\ \E threw \in BOOLEAN :
       IF threw
         THEN Throw("setup failed") /\ UNCHANGED activePage
         ELSE /\ pc' = "goto"
              /\ activePage' = "page"
              /\ UNCHANGED <<wm, wmError>>
  /\ UNCHANGED <<pageVars, cards, i, results, modalData, tabKeys,
                 closeVars, histVars, apiVars, popups>>
  /\ UNCHANGED <<container, normVars, sideVars, gateVars, tabVars>>

\* page.goto with a 30 s timeout (lines 381-382).
Goto ==
  /\ pc = "goto"
  /\ \E threw \in BOOLEAN :
       IF threw
         THEN Throw("Navigation timeout")
         ELSE pc' = "gate" /\ UNCHANGED <<wm, wmError>>
  /\ UNCHANGED <<pageVars, cards, i, results, modalData, tabKeys,
                 closeVars, histVars, apiVars>>
  /\ UNCHANGED <<container, normVars, popupVars, sideVars, gateVars, tabVars>>

\* closeDisclaimerModal is not running and its locals are gone.
GateIdle ==
  /\ gpc = 0
  /\ gateButtons = {}
  /\ gateTried = << >>
  /\ gateClicked = 0
  /\ gateReturn = "none"

\* The caller goes on after line 384: the locals of closeDisclaimerModal and
\* its discarded value are gone.
GateLeave ==
  /\ gpc' = 0
  /\ gateButtons' = {}
  /\ gateTried' = << >>
  /\ gateClicked' = 0
  /\ gateReturn' = "none"
  /\ UNCHANGED gateRuns

\* The strategies of closeDisclaimerModal: 1 button-area button (69-75),
\* 2 button by ID pattern (81-87), 3 button by class (93-99), 4 button with
\* the text CONFIRM (105-112).
GateStrategies == 1..4

\* closeDisclaimerModal returns value to line 384, where it is discarded.
GateReturns(value) ==
  /\ gateReturn' = value
  /\ gpc' = 0
  /\ pc' = "wait_results"

\* Mutant of GateAbsent: the timeout of the probe is not caught and reaches
\* the outer catch of searchODINWithModal.
GateAbsent_Rethrow ==
  /\ gate' = "absent"
  /\ Throw("Waiting for the gate failed")
  /\ UNCHANGED <<gpc, gateReturn>>

\* The probe for the gate element times out: the catch of lines 116-118 logs
\* and the function returns false.
GateAbsent ==
  /\ gate' = "absent"
  /\ GateReturns("false")
  /\ UNCHANGED <<wm, wmError>>

\* waitForSelector('.disclaimer-modal') with a 5 s timeout and the 1 s delay
\* (lines 61-64): the gate element is found, with some of the buttons the
\* strategies look for, or the wait times out.
GateProbe ==
  /\ pc = "gate"
  /\ gpc = 0
  /\ gateReturn = "none"
  /\ gateRuns' = gateRuns + 1
  /\ \E found \in BOOLEAN :
       IF found
         THEN /\ gate' = "present"
              /\ gateButtons' \in SUBSET GateStrategies
              /\ gpc' = 1
              /\ UNCHANGED <<pc, wm, wmError, gateReturn>>
         ELSE /\ GateAbsent
              /\ UNCHANGED gateButtons
  /\ UNCHANGED <<gateTried, gateClicked>>
  /\ UNCHANGED <<browser, modal, cards, i, results, modalData, tabKeys,
                 closeVars, histVars, apiVars>>
  /\ UNCHANGED <<container, normVars, popupVars, sideVars, tabVars>>

\* What the page may do to the gate after a click on one of its buttons:
\* remove it, or keep it.
GateReaction == {"dismissed", "present"}

\* Strategies 1 to 3 (lines 67-102): page.$ of the button; when it is there
\* it is clicked and after the 1.5 s delay the function returns true; when it
\* is not there, or page.$ or the click rejects, the next strategy runs.
GateButton ==
  /\ pc = "gate"
  /\ gpc \in 1..3
  /\ gateTried' = Append(gateTried, gpc)
  /\ \E threw \in BOOLEAN :
       IF ~threw /\ gpc \in gateButtons
         THEN /\ gateClicked' = gpc
              /\ gate' \in GateReaction
              /\ GateReturns("true")
         ELSE /\ gpc' = gpc + 1
              /\ UNCHANGED <<pc, gate, gateClicked, gateReturn>>
  /\ UNCHANGED <<gateButtons, gateRuns>>
  /\ UNCHANGED <<browser, modal, loopVars, closeVars, histVars, apiVars>>
  /\ UNCHANGED <<container, normVars, popupVars, sideVars, tabVars>>

\* Strategy 4 (lines 104-114): page.evaluate clicks the button with the text
\* CONFIRM when there is one; when the evaluate resolves the function
\* returns true after the delay, with or without a click; when it rejects
\* the function returns false (line 120).
GateConfirm ==
  /\ pc = "gate"
  /\ gpc = 4
  /\ gateTried' = Append(gateTried, gpc)
  /\ \E threw \in BOOLEAN :
       IF threw
         THEN /\ GateReturns("false")
              /\ UNCHANGED <<gate, gateClicked>>
         ELSE /\ IF gpc \in gateButtons
                   THEN gateClicked' = gpc /\ gate' \in GateReaction
                   ELSE UNCHANGED <<gate, gateClicked>>
              /\ GateReturns("true")
  /\ UNCHANGED <<gateButtons, gateRuns>>
  /\ UNCHANGED <<browser, modal, loopVars, closeVars, histVars, apiVars>>
  /\ UNCHANGED <<container, normVars, popupVars, sideVars, tabVars>>

\* closeDisclaimerModal (lines 57-121, called at 384). It catches every
\* error; its value is not used.
CloseDisclaimerModal == GateProbe \/ GateButton \/ GateConfirm

\* Mutant of WaitResults: when the wait expires it is started again.
WaitResults_Retry ==
  /\ pc = "wait_results"
  /\ \E found \in BOOLEAN :
       IF found
         THEN /\ container' = "present"
              /\ pc' = "fetch_cards"
         ELSE /\ container' = "absent"
              /\ pc' = "wait_results"
  /\ GateLeave
  /\ UNCHANGED <<pageVars, loopVars, closeVars, histVars, apiVars, normVars,
               sideVars, tabVars, popupVars>>

\* waitForSelector of the results container, 10 s (line 386): the container
\* is there in time, or the wait rejects and the outer catch rethrows.
WaitResults ==
  /\ pc = "wait_results"
  /\ \E found \in BOOLEAN :
       IF found
         THEN /\ container' = "present"
              /\ pc' = "fetch_cards"
              /\ UNCHANGED <<wm, wmError>>
         ELSE /\ container' = "absent"
              /\ Throw("Waiting for selector failed")
  /\ UNCHANGED <<pageVars, cards, i, results, modalData, tabKeys,
                 closeVars, histVars, apiVars>>
  /\ GateLeave
  /\ UNCHANGED <<normVars, sideVars, tabVars, popupVars>>

\* let cards = await page.$$(...); const results = []; i = 0 (lines 392-397),
\* on a page with up to maxCards cards.
FetchCardsUpTo(maxCards) ==
  /\ \E threw \in BOOLEAN :
       IF threw
         THEN Throw("Protocol error") /\ UNCHANGED <<cards, i, results>>
         ELSE /\ cards' \in 0..maxCards
              /\ i' = 0
              /\ results' = <<>>
              /\ pc' = "loop"
              /\ UNCHANGED <<wm, wmError>>
  /\ UNCHANGED <<pageVars, modalData, tabKeys, closeVars, histVars, apiVars>>
  /\ UNCHANGED <<container, normVars, popupVars, sideVars, gateVars, tabVars>>

FetchCards ==
  /\ pc = "fetch_cards"
  /\ FetchCardsUpTo(MaxCards)

\* The same on a page with more cards than the loop takes.
FetchAnyCards ==
  /\ pc = "fetch_cards"
  /\ FetchCardsUpTo(PageCards)

\* Mutant of LoopCheck: the loop condition is i < cards.length.
LoopCheck_NoCap ==
  /\ pc = "loop"
  /\ IF i < cards
       THEN /\ pc' = "refetch"
            /\ modalData' = "unset"
            /\ tabKeys' = {}
            /\ closeInvoked' = FALSE
            /\ UNCHANGED <<wm, wmError>>
       ELSE /\ pc' = "finally"
            /\ wm' = "returned"
            /\ UNCHANGED <<wmError, modalData, tabKeys, closeInvoked>>
  /\ UNCHANGED <<pageVars, cards, i, results, closeVars, outcome,
                 opsSinceClose, prevStuck, apiVars>>
  /\ UNCHANGED <<container, normVars, popupVars, sideVars, gateVars, tabVars>>

\* The loop condition i < Math.min(cards.length, 10) (line 397) and, when it
\* fails, 'return results' (line 484).
LoopCheck ==
  /\ pc = "loop"
  /\ IF i < Min(cards, MaxCardsPerQuery)
       THEN /\ pc' = "refetch"
            /\ modalData' = "unset"
            /\ tabKeys' = {}
            /\ closeInvoked' = FALSE
            /\ UNCHANGED <<wm, wmError>>
       ELSE /\ pc' = "finally"
            /\ wm' = "returned"
            /\ UNCHANGED <<wmError, modalData, tabKeys, closeInvoked>>
  /\ UNCHANGED <<pageVars, cards, i, results, closeVars, outcome,
                 opsSinceClose, prevStuck, apiVars>>
  /\ UNCHANGED <<container, normVars, popupVars, sideVars, gateVars, tabVars>>

\* Mutant of Catch: the catch block logs the error and does not call
\* closeAssetModal.
Catch_NoClose ==
  /\ pc' = "close_catch"
  /\ outcome' = [outcome EXCEPT ![i] = "threw"]
  /\ cpc' = "c_done"
  /\ UNCHANGED <<closeInvoked, closeCaller, closeResult, closeButton,
                 escPresses, attempted, lastProbe>>

\* Entry of the per-card catch block (lines 467-472): closeAssetModal is
\* called for recovery.
Catch ==
  /\ pc' = "close_catch"
  /\ outcome' = [outcome EXCEPT ![i] = "threw"]
  /\ closeInvoked' = TRUE
  /\ CloseEnter("catch")

\* cards = await page.$$(...) inside the loop (line 404): the card list is
\* read again and may have any length.
CardRefetch ==
  /\ pc = "refetch"
  /\ \E threw \in BOOLEAN :
       IF threw
         THEN Catch /\ UNCHANGED cards
         ELSE /\ cards' \in 0..MaxCards
              /\ pc' = "card_data"
              /\ UNCHANGED <<closeVars, outcome, closeInvoked>>
  /\ opsSinceClose' = opsSinceClose \cup {"refetchCards"}
  /\ UNCHANGED <<pageVars, i, results, modalData, tabKeys, wm, wmError,
                 prevStuck, apiVars>>
  /\ UNCHANGED <<container, normVars, popupVars, sideVars, gateVars, tabVars>>

\* page.evaluate of the card preview (lines 405-414): cards[i] is undefined
\* when the list is shorter than i + 1, and the evaluate rejects.
CardEvaluate ==
  /\ pc = "card_data"
  /\ \E threw \in BOOLEAN :
       IF threw \/ i >= cards
         THEN Catch
         ELSE /\ pc' = "click"
              /\ UNCHANGED <<closeVars, outcome, closeInvoked>>
  /\ opsSinceClose' = opsSinceClose \cup {"cardEvaluate"}
  /\ UNCHANGED <<pageVars, loopVars, prevStuck, apiVars>>
  /\ UNCHANGED <<container, normVars, popupVars, sideVars, gateVars, tabVars>>

\* The activation click (lines 419-429) and the page's reaction to it.
CardClick ==
  /\ pc = "click"
  /\ \E threw \in BOOLEAN :
       IF threw
         THEN Catch /\ UNCHANGED modal
         ELSE /\ modal' \in PageOpen(modal)
              /\ pc' = "extract"
              /\ UNCHANGED <<closeVars, outcome, closeInvoked>>
  /\ opsSinceClose' = opsSinceClose \cup {"click"}
  /\ UNCHANGED <<browser, gate, loopVars, prevStuck, apiVars>>
  /\ UNCHANGED <<container, normVars, popupVars, sideVars, gateVars, tabVars>>

\* Mutant of ModalDataReturned: closeAssetModal is called without await,
\* the loop body goes on while it runs.
ModalDataReturned_NoAwait(md) ==
  /\ modalData' = md
  /\ outcome' = [outcome EXCEPT ![i] = IF md = "data" THEN "ok" ELSE "null"]
  /\ pc' = "back_probe"
  /\ closeInvoked' = TRUE
  /\ CloseEnter("main")
  /\ tpc' = "t_idle"
  /\ tabIndex' = 0
  /\ tabCount' = 0
  /\ tabsDone' = << >>

\* extractModalData has returned md to line 431 (extractTabsContent's locals
\* are gone); then the call of closeAssetModal (line 441), which is awaited.
ModalDataReturned(md) ==
  /\ modalData' = md
  /\ outcome' = [outcome EXCEPT ![i] = IF md = "data" THEN "ok" ELSE "null"]
  /\ pc' = "close_main"
  /\ closeInvoked' = TRUE
  /\ CloseEnter("main")
  /\ tpc' = "t_idle"
  /\ tabIndex' = 0
  /\ tabCount' = 0
  /\ tabsDone' = << >>

\* extractModalData (lines 330-367, called at 431) up to the tab loop: null
\* when the overlay does not appear within 5 s or the evaluate rejects;
\* otherwise extractTabsContent reads the tab buttons (lines 237-244), none
\* when there is no tab bar or the query rejects.
ExtractModalData ==
  /\ pc = "extract"
  /\ tpc = "t_idle"
  /\ \E md \in (IF modal = 0 THEN {"null"} ELSE {"null", "data"}) :
       \E n \in 0..MaxTabs :
         IF md = "data" /\ n > 0
           THEN /\ tpc' = "t_name"
                /\ tabCount' = n
                /\ UNCHANGED <<pc, modalData, outcome, closeInvoked, closeVars,
                               tabIndex, tabsDone>>
           ELSE /\ n = 0
                /\ ModalDataReturned(md)
  /\ tabKeys' = {}
  /\ opsSinceClose' = opsSinceClose \cup {"probeOverlay"}
  /\ UNCHANGED <<pageVars, cards, i, results, wm, wmError, prevStuck, apiVars>>
  /\ UNCHANGED <<container, normVars, popupVars, sideVars, gateVars>>

\* The end of one iteration of the tab loop (lines 248-318): how is
\* "recorded", "empty" or "threw" (the catch of lines 315-317 goes on with the
\* next tab); after the last tab extractTabsContent and extractModalData
\* return.
TabSettled(how) ==
  IF tabIndex + 1 < tabCount
    THEN /\ tpc' = "t_name"
         /\ tabIndex' = tabIndex + 1
         /\ tabsDone' = Append(tabsDone, how)
         /\ UNCHANGED <<pc, modalData, outcome, closeInvoked, closeVars,
                        tabCount>>
    ELSE ModalDataReturned("data")

\* page.evaluate of the tab's name (lines 250-252).
TabName ==
  /\ pc = "extract"
  /\ tpc = "t_name"
  /\ \E threw \in BOOLEAN :
       IF threw
         THEN TabSettled("threw")
         ELSE /\ tpc' = "t_click"
              /\ UNCHANGED <<pc, modalData, outcome, closeInvoked, closeVars,
                             tabIndex, tabCount, tabsDone>>
  /\ UNCHANGED <<pageVars, cards, i, results, tabKeys, wm, wmError,
                 opsSinceClose, prevStuck, apiVars>>
  /\ UNCHANGED <<container, normVars, popupVars, sideVars, gateVars>>

\* tabButtons[i].click() and the 2 s delay (lines 256-257).
TabClick ==
  /\ pc = "extract"
  /\ tpc = "t_click"
  /\ \E threw \in BOOLEAN :
       IF threw
         THEN TabSettled("threw")
         ELSE /\ tpc' = "t_content"
              /\ UNCHANGED <<pc, modalData, outcome, closeInvoked, closeVars,
                             tabIndex, tabCount, tabsDone>>
  /\ UNCHANGED <<pageVars, cards, i, results, tabKeys, wm, wmError,
                 opsSinceClose, prevStuck, apiVars>>
  /\ UNCHANGED <<container, normVars, popupVars, sideVars, gateVars>>

\* page.evaluate of the tab's content (lines 259-307) and its recording
\* (lines 309-312): a tab without text is not recorded.
TabContent ==
  /\ pc = "extract"
  /\ tpc = "t_content"
  /\ \E how \in {"recorded", "empty", "threw"} :
       /\ TabSettled(how)
       /\ \E keys \in TabKeySets :
            tabKeys' = IF how = "recorded" THEN tabKeys \cup keys ELSE tabKeys
  /\ UNCHANGED <<pageVars, cards, i, results, wm, wmError,
                 opsSinceClose, prevStuck, apiVars>>
  /\ UNCHANGED <<container, normVars, popupVars, sideVars, gateVars>>

\* closeAssetModal has returned to line 441: 'closed' is only logged.
AfterCloseMain ==
  /\ pc = "close_main"
  /\ cpc = "c_done"
  /\ pc' = "back_probe"
  /\ prevStuck' = (modal > 0)
  /\ opsSinceClose' = {}
  /\ CloseLeave
  /\ UNCHANGED <<pageVars, loopVars, outcome, closeInvoked, apiVars>>
  /\ UNCHANGED <<container, normVars, popupVars, sideVars, gateVars, tabVars>>

\* parseEquipmentData([{...cardData, ...modalData}]) (lines 462, 499-517):
\* the modal's fields override the card's when modalData is not null.
ParsedCard(md, keys) ==
  [src |-> IF md = "data" THEN "modal" ELSE "card",
   specifications |-> IF md = "data" THEN keys ELSE {}]

\* One whole iteration of the loop body (lines 398-482): the card list is
\* read again and may have any length; the iteration ends with
\* results.push (line 463) or in the catch block (466-481), and i++ follows
\* in both cases. The overlay is left as it was.
\* Mutant of ProcessCardUpTo: the loop has no i++.
ProcessCardUpTo_NoIncrement(maxCards) ==
  /\ \E n \in 0..maxCards, pushed \in BOOLEAN :
       /\ cards' = n
       /\ results' = IF pushed /\ i < n /\ Len(results) < MaxCardsPerQuery
                       THEN Append(results, ParsedCard("null", {}))
                       ELSE results
  /\ i' = i
  /\ pc' = "loop"
  /\ UNCHANGED <<pageVars, modalData, tabKeys, wm, wmError, closeVars,
                 histVars, apiVars>>
  /\ UNCHANGED <<container, normVars, popupVars, sideVars, gateVars, tabVars>>

ProcessCardUpTo(maxCards) ==
  /\ \E n \in 0..maxCards, pushed \in BOOLEAN :
       /\ cards' = n
       /\ results' = IF pushed /\ i < n
                       THEN Append(results, ParsedCard("null", {}))
                       ELSE results
  /\ i' = i + 1
  /\ pc' = "loop"
  /\ UNCHANGED <<pageVars, modalData, tabKeys, wm, wmError, closeVars,
                 histVars, apiVars>>
  /\ UNCHANGED <<container, normVars, popupVars, sideVars, gateVars, tabVars>>

ProcessCard ==
  /\ pc = "refetch"
  /\ ProcessCardUpTo(PageCards)

\* The same iteration on a page that never lists more than MaxCards cards.
ProcessListedCard ==
  /\ pc = "refetch"
  /\ ProcessCardUpTo(MaxCards)

\* The probe of the results container (line 453), then parse, push and i++
\* (lines 462-463, 397).
BackAtResults ==
  /\ pc = "back_probe"
  /\ \E threw \in BOOLEAN :
       IF threw
         THEN Catch /\ UNCHANGED <<results, i>>
         ELSE /\ results' = Append(results, ParsedCard(modalData, tabKeys))
              /\ i' = i + 1
              /\ pc' = "loop"
              /\ UNCHANGED <<closeVars, outcome, closeInvoked>>
  /\ opsSinceClose' = opsSinceClose \cup {"probeResults"}
  /\ UNCHANGED <<pageVars, cards, modalData, tabKeys, wm, wmError, prevStuck,
                 apiVars>>
  /\ UNCHANGED <<container, normVars, popupVars, sideVars, gateVars, tabVars>>

\* Mutant of AfterCloseCatch: the per-card catch rethrows after recovery, so
\* the outer catch and the finally block end the query.
AfterCloseCatch_Rethrow ==
  /\ pc = "close_catch"
  /\ cpc = "c_done"
  /\ wm' = "threw"
  /\ wmError' = "card failed"
  /\ pc' = "finally"
  /\ prevStuck' = (modal > 0)
  /\ opsSinceClose' = {}
  /\ CloseLeave
  /\ UNCHANGED <<pageVars, cards, i, results, modalData, tabKeys,
                 outcome, closeInvoked, apiVars>>
  /\ UNCHANGED <<container, normVars, popupVars, sideVars, gateVars, tabVars>>

\* closeAssetModal has returned to line 472 (it never throws, so the inner
\* catch of lines 474-480 is not entered); the loop goes on with i++.
AfterCloseCatch ==
  /\ pc = "close_catch"
  /\ cpc = "c_done"
  /\ i' = i + 1
  /\ pc' = "loop"
  /\ prevStuck' = (modal > 0)
  /\ opsSinceClose' = {}
  /\ CloseLeave
  /\ UNCHANGED <<pageVars, cards, results, modalData, tabKeys, wm, wmError,
                 outcome, closeInvoked, apiVars>>
  /\ UNCHANGED <<container, normVars, popupVars, sideVars, gateVars, tabVars>>

\* finally { if (browser) await browser.close(); } (lines 489-493): an error
\* of browser.close replaces the pending outcome. The page goes with the
\* browser and the function's locals with the function.
BrowserClose ==
  /\ pc = "finally"
  /\ browser' = "closed"
  /\ modal' = 0
  /\ \E threw \in BOOLEAN :
       IF threw
         THEN wm' = "threw" /\ wmError' = "close failed"
         ELSE UNCHANGED <<wm, wmError>>
  /\ pc' = "odin"
  /\ cards' = 0 /\ i' = 0 /\ modalData' = "unset" /\ tabKeys' = {}
  /\ closeInvoked' = FALSE /\ opsSinceClose' = {} /\ prevStuck' = FALSE
  /\ activePage' = "none"
  /\ popups' = [id \in PopupIds |->
                  IF popups[id] \in {"open", "left_open"}
                    THEN "closed_by_browser" ELSE popups[id]]
  /\ UNCHANGED <<gate, results, closeVars, outcome, apiVars>>
  /\ UNCHANGED <<container, normVars, sideVars, gateVars, tabVars>>

\* The site opens a secondary page while the card loop runs; Puppeteer emits
\* 'popup' on the page.
PopupOpens ==
  /\ browser = "open"
  /\ activePage = "page"
  /\ pc \in {"loop", "refetch"}
  /\ \E id \in PopupIds :
       /\ popups[id] = "none"
       /\ \A h \in PopupIds : h < id => popups[h] # "none"
       /\ popups' = [popups EXCEPT ![id] = "open"]
  /\ UNCHANGED <<pc, pageVars, loopVars, closeVars, histVars, apiVars,
                 container, normVars, tabVars, gateVars, activePage, sideVars>>

\* The popup handler (lines 46-49) runs for a secondary page, at any point
\* of the loop: popup.close() resolves and the page is closed, or it rejects
\* and the handler ends there; it has no catch and is not run again.
PopupHandler ==
  /\ browser = "open"
  /\ \E id \in PopupIds, rejected \in BOOLEAN :
       /\ popups[id] = "open"
       /\ popups' = [popups EXCEPT ![id] = IF rejected THEN "left_open"
                                                       ELSE "closed_by_handler"]
  /\ UNCHANGED <<pc, pageVars, loopVars, closeVars, histVars, apiVars,
                 container, normVars, tabVars, gateVars, activePage, sideVars>>

SearchODINWithModal ==
  \/ InitBrowser \/ SetupPage \/ Goto \/ CloseDisclaimerModal \/ WaitResults
  \/ FetchCards \/ LoopCheck \/ CardRefetch \/ CardEvaluate \/ CardClick
  \/ ExtractModalData \/ TabName \/ TabClick \/ TabContent
  \/ AfterCloseMain \/ BackAtResults \/ AfterCloseCatch
  \/ BrowserClose

\* ------------------------------------------------------------- searchODIN
\* String.prototype.toLowerCase on the letters A-Z.
LowerChar(c) ==
  CASE c = "A" -> "a" [] c = "B" -> "b" [] c = "C" -> "c" [] c = "D" -> "d"
    [] c = "E" -> "e" [] c = "F" -> "f" [] c = "G" -> "g" [] c = "H" -> "h"
    [] c = "I" -> "i" [] c = "J" -> "j" [] c = "K" -> "k" [] c = "L" -> "l"
    [] c = "M" -> "m" [] c = "N" -> "n" [] c = "O" -> "o" [] c = "P" -> "p"
    [] c = "Q" -> "q" [] c = "R" -> "r" [] c = "S" -> "s" [] c = "T" -> "t"
    [] c = "U" -> "u" [] c = "V" -> "v" [] c = "W" -> "w" [] c = "X" -> "x"
    [] c = "Y" -> "y" [] c = "Z" -> "z" [] OTHER -> c

RECURSIVE ToLowerCase(_)
ToLowerCase(str) ==
  IF str = "" THEN ""
  ELSE LowerChar(SubSeq(str, 1, 1)) \o ToLowerCase(SubSeq(str, 2, Len(str)))

\* String.prototype.includes
Includes(str, word) ==
  \E a \in 1..(Len(str) - Len(word) + 1) :
    SubSeq(str, a, a + Len(word) - 1) = word

IncludesAny(str, words) == \E w \in words : Includes(str, w)

\* generateMilitaryReport's categorisation of a specification key (lines
\* 656-669): the first category with a keyword in the lower-cased key, none
\* when no keyword is in it.
Category(k) ==
  LET lowerKey == ToLowerCase(k)
  IN  IF IncludesAny(lowerKey, {"length", "diameter", "weight", "span"})
        THEN "dimensions"
      ELSE IF IncludesAny(lowerKey, {"range", "speed", "altitude", "mach"})
        THEN "performance"
      ELSE IF IncludesAny(lowerKey, {"warhead", "payload", "explosive"})
        THEN "armament"
      ELSE IF IncludesAny(lowerKey, {"guidance", "radar", "seeker"})
        THEN "sensors"
      ELSE "none"

\* formatReportForFrontend's specificationsTab (lines 804-809): the keys of
\* the four categories.
SpecificationsTab(keys) == {k \in keys : Category(k) # "none"}

\* Object.assign over all results (lines 883-887): the merged key set.
MergedKeys(rs) == UNION {rs[n].specifications : n \in 1..Len(rs)}

NoOdinResult ==
  [returned |-> FALSE, success |-> FALSE, error |-> "", frontendData |-> FALSE,
   name |-> "", specificationsTab |-> {}]

\* Mutant of OdinCaught: searchODIN has no catch block, the error reaches the
\* caller.
OdinCaught_Propagate(msg) ==
  [returned |-> FALSE, success |-> FALSE, error |-> "", frontendData |-> FALSE,
   name |-> "", specificationsTab |-> {}]

\* The value searchODIN returns when searchODINWithModal threw with message
\* msg (catch block, lines 922-929).
OdinCaught(msg) ==
  [returned |-> TRUE, success |-> FALSE, error |-> msg, frontendData |-> FALSE,
   name |-> "", specificationsTab |-> {}]

\* The value searchODIN returns for a results array (lines 860-920).
OdinFromResults(rs) ==
  IF Len(rs) = 0
    THEN [returned |-> TRUE, success |-> FALSE, error |-> "No results found",
          frontendData |-> FALSE, name |-> "", specificationsTab |-> {}]
    ELSE [returned |-> TRUE, success |-> TRUE, error |-> "",
          frontendData |-> TRUE, name |-> rs[1].src,
          specificationsTab |-> SpecificationsTab(MergedKeys(rs))]

\* searchODIN (lines 850-930), after searchODINWithModal has settled.
SearchODIN ==
  /\ pc = "odin"
  /\ odinResult' = IF wm = "threw" THEN OdinCaught(wmError)
                                   ELSE OdinFromResults(results)
  /\ pc' = "news"
  /\ UNCHANGED <<pageVars, loopVars, closeVars, histVars, fetched, apiResult>>
  /\ UNCHANGED <<container, normVars, popupVars, sideVars, gateVars, tabVars>>

\* ------------------------------------------------------- googleNewsHelper
\* Articles the feed may hold: [title, link, timestamp]; link "" is an item
\* without a link.
A1 == [title |-> "t1", link |-> "l1", timestamp |-> 2]
A2 == [title |-> "t2", link |-> "l1", timestamp |-> 1]
A3 == [title |-> "t1", link |-> "",   timestamp |-> 3]
A4 == [title |-> "t3", link |-> "",   timestamp |-> 1]

\* A fetchGoogleNewsRSS call: rejected, or resolved with its articles.
Rejected == [ok |-> FALSE, items |-> <<>>]
Feed(items) == [ok |-> TRUE, items |-> items]

\* The three context-phrase fetches of one fetchEquipmentNews call.
FeedChoices ==
  { <<Rejected, Rejected, Rejected>>,
    <<Feed(<<A1>>), Rejected, Feed(<<A2, A4>>)>>,
    <<Feed(<<A3>>), Feed(<<A4, A3>>), Feed(<<>>)>> }

\* Further articles: Art(n) has its own title and link, a lower n is newer.
Titles ==
  <<"n01", "n02", "n03", "n04", "n05", "n06", "n07", "n08", "n09", "n10",
    "n11", "n12", "n13", "n14", "n15", "n16", "n17", "n18", "n19", "n20",
    "n21", "n22", "n23", "n24", "n25", "n26", "n27", "n28", "n29", "n30",
    "n31">>
Links ==
  <<"u01", "u02", "u03", "u04", "u05", "u06", "u07", "u08", "u09", "u10",
    "u11", "u12", "u13", "u14", "u15", "u16", "u17", "u18", "u19", "u20",
    "u21", "u22", "u23", "u24", "u25", "u26", "u27", "u28", "u29", "u30",
    "u31">>
Art(n) == [title |-> Titles[n], link |-> Links[n],
           timestamp |-> 10 + Len(Titles) - n]

\* An article with the title of A1 and a link of its own.
A5 == [title |-> "t1", link |-> "l2", timestamp |-> 1]

\* A full feed: the FeedMax items from Art(a) on (the each() loop stops at
\* index maxResults, googleNewsHelper.js 40).
Block(a) == [k \in 1..FeedMax |-> Art(a + k - 1)]

\* Feeds that fill the caps of fetchEquipmentNews and of /api/search.
WideFeedChoices ==
  { <<Feed(Block(1)), Feed(Block(6)), Feed(Block(11))>>,
    <<Feed(Block(16)), Feed(Block(21)), Feed(Block(26))>>,
    <<Feed(<<Art(31)>>), Feed(<< >>), Rejected>>,
    <<Feed(<<A1, A5>>), Rejected, Feed(<<A4>>)>>,
    <<Rejected, Feed(Block(1)), Feed(Block(3))>> }

Take(s, n) == SubSeq(s, 1, Min(n, Len(s)))

\* The key an article is stored under in the Map: its title
\* (googleNewsHelper.js 116), its link (googleNewsHelper.js 150), or
\* article.link || article.title (server.js 224), where an empty link is
\* falsy.
KeyOf(a, kind) ==
  IF kind = "link" THEN a.link
  ELSE IF kind = "linkOrTitle" /\ a.link # "" THEN a.link ELSE a.title

\* Array.from(new Map(s.map(a => [key(a), a])).values()): one entry per key,
\* at the position of the key's first occurrence, holding its last article.
MapDedup(s, kind) ==
  LET K(a)     == KeyOf(a, kind)
      first(j) == \A h \in 1..(j - 1) : K(s[h]) # K(s[j])
      last(j)  == CHOOSE h \in j..Len(s) :
                    /\ K(s[h]) = K(s[j])
                    /\ \A g \in (h + 1)..Len(s) : K(s[g]) # K(s[j])
      idx      == SelectSeq([j \in 1..Len(s) |-> j], first)
  IN  [n \in 1..Len(idx) |-> s[last(idx[n])]]

\* Insertion of a into a list sorted newest first, after every article that
\* is not older (Array.prototype.sort is stable).
RECURSIVE InsertDesc(_, _)
InsertDesc(a, s) ==
  IF s = <<>> THEN <<a>>
  ELSE IF Head(s).timestamp >= a.timestamp
    THEN <<Head(s)>> \o InsertDesc(a, Tail(s))
    ELSE <<a>> \o s

\* Mutant of SortDesc: the list is left in its order.
SortDesc_Unsorted(s) == s

\* s.sort((a, b) => b.timestamp - a.timestamp)
RECURSIVE SortDesc(_)
SortDesc(s) ==
  IF s = <<>> THEN <<>>
  ELSE InsertDesc(s[Len(s)], SortDesc(SubSeq(s, 1, Len(s) - 1)))

\* Mutant of FetchEquipmentNews: the fetches have no catch of their own, one
\* rejection rejects Promise.all and the outer catch returns [].
FetchEquipmentNews_FailFast(feeds, maxResults) ==
  LET allArticles == feeds[1].items \o feeds[2].items \o feeds[3].items
  IN  IF \E k \in 1..3 : ~feeds[k].ok
        THEN << >>
        ELSE Take(SortDesc(MapDedup(allArticles, "title")), maxResults)

\* fetchEquipmentNews (googleNewsHelper.js 89-128): a rejected fetch gives
\* no article; dedup by title, sort, slice.
FetchEquipmentNews(feeds, maxResults) ==
  LET allArticles == feeds[1].items \o feeds[2].items \o feeds[3].items
  IN  Take(SortDesc(MapDedup(allArticles, "title")), maxResults)

\* ------------------------------------------------- per-region helpers
\* regions of fetchNewsByTopic (default parameter, googleNewsHelper.js 133)
TopicRegions == <<"US", "IN", "GB">>

\* regions of multiRegionSearch (googleNewsHelper.js 225-231)
SearchRegions ==
  << [code |-> "US", name |-> "United States"],
     [code |-> "IN", name |-> "India"],
     [code |-> "GB", name |-> "United Kingdom"],
     [code |-> "AU", name |-> "Australia"],
     [code |-> "FR", name |-> "France"] >>

\* What fetchGoogleNewsRSS may do for one region: reject (it rethrows,
\* googleNewsHelper.js 80-83) or resolve with articles.
RegionFeedChoices == {Rejected, Feed(<<A1>>), Feed(<<A2, A4>>)}

\* article.region = region (googleNewsHelper.js 141-143)
WithRegion(items, region) ==
  [n \in 1..Len(items) |->
     [title |-> items[n].title, link |-> items[n].link,
      timestamp |-> items[n].timestamp, region |-> region]]

\* The for loop of fetchNewsByTopic over the regions from k on.
RECURSIVE PushRegions(_, _)
PushRegions(feeds, k) ==
  IF k > Len(feeds) THEN << >>
  ELSE WithRegion(feeds[k].items, TopicRegions[k]) \o PushRegions(feeds, k + 1)

\* fetchNewsByTopic (googleNewsHelper.js 133-161): the fetches are awaited
\* one after the other inside one try; a rejected one throws into the catch,
\* which returns [].
FetchNewsByTopic(feeds) ==
  IF \E k \in 1..Len(feeds) : ~feeds[k].ok
    THEN << >>
    ELSE SortDesc(MapDedup(PushRegions(feeds, 1), "link"))

\* multiRegionSearch (googleNewsHelper.js 223-254): Promise.all over the
\* regions; a rejected fetch rejects it and the catch returns [].
MultiRegionSearch(feeds) ==
  IF \E k \in 1..Len(feeds) : ~feeds[k].ok
    THEN << >>
    ELSE [k \in 1..Len(feeds) |->
            [region     |-> SearchRegions[k].name,
             regionCode |-> SearchRegions[k].code,
             articles   |-> feeds[k].items]]

\* A call of fetchNewsByTopic with the default regions.
CallFetchNewsByTopic ==
  /\ regionCall = "none"
  /\ \E feeds \in [1..Len(TopicRegions) -> RegionFeedChoices] :
       /\ regionFeeds' = feeds
       /\ regionOut' = FetchNewsByTopic(feeds)
  /\ regionCall' = "fetchNewsByTopic"
  /\ UNCHANGED <<mainVars, cacheVars, reportVars, scrapeVars>>

\* A call of multiRegionSearch.
CallMultiRegionSearch ==
  /\ regionCall = "none"
  /\ \E feeds \in [1..Len(SearchRegions) -> RegionFeedChoices] :
       /\ regionFeeds' = feeds
       /\ regionOut' = MultiRegionSearch(feeds)
  /\ regionCall' = "multiRegionSearch"
  /\ UNCHANGED <<mainVars, cacheVars, reportVars, scrapeVars>>

\* ------------------------------------------------------------ /api/search
\* article.link || article.title (server.js 224)
NewsKey(a) == KeyOf(a, "linkOrTitle")

\* Mutant of UniqueNews: the articles are sorted without the Map.
UniqueNews_NoDedup(regionalNews, globalNews) ==
  SortDesc(regionalNews \o globalNews)

\* uniqueNews (server.js 222-227)
UniqueNews(regionalNews, globalNews) ==
  SortDesc(MapDedup(regionalNews \o globalNews, "linkOrTitle"))

\* The news field of the response (server.js 271-278, 305-312).
NewsField(uniqueNews) ==
  LET top == Take(uniqueNews, NewsCap)
  IN  [n \in 1..Len(top) |-> [title |-> top[n].title, url |-> top[n].link]]

\* The two fetchEquipmentNews calls, started after searchODIN returned
\* (server.js 206-220), with the feeds of each drawn from choices; the feeds
\* are kept as history.
FetchNewsFrom(choices) ==
  /\ \E r \in choices, g \in choices :
       fetched' = [regional |-> FetchEquipmentNews(r, RegionalMax),
                   global   |-> FetchEquipmentNews(g, GlobalMax),
                   feeds    |-> [regional |-> r, global |-> g]]
  /\ pc' = "build"
  /\ UNCHANGED <<pageVars, loopVars, closeVars, histVars, odinResult, apiResult>>
  /\ UNCHANGED <<container, normVars, popupVars, sideVars, gateVars, tabVars>>

FetchNews ==
  /\ pc = "news"
  /\ FetchNewsFrom(FeedChoices)

\* The same calls when the feeds may be full.
FetchAnyNews ==
  /\ pc = "news"
  /\ FetchNewsFrom(FeedChoices \cup WideFeedChoices)

NoFeeds == <<Rejected, Rejected, Rejected>>
NoFetched == [regional |-> << >>, global |-> << >>,
              feeds |-> [regional |-> NoFeeds, global |-> NoFeeds]]

NoApiResult ==
  [sent |-> FALSE, odinSuccess |-> FALSE, dataSource |-> "", error |-> "",
   name |-> "", specifications |-> {}, news |-> <<>>]

\* Mutant of ApiResultOf: the news-only branch sends no news.
ApiResultOf_DropNews(odin, uniqueNews) ==
  IF odin.success /\ odin.frontendData
    THEN [sent |-> TRUE, odinSuccess |-> TRUE,
          dataSource |-> "ODIN Military Intelligence", error |-> "",
          name |-> odin.name, specifications |-> odin.specificationsTab,
          news |-> NewsField(uniqueNews)]
    ELSE [sent |-> TRUE, odinSuccess |-> FALSE, dataSource |-> "News Only",
          error |-> IF odin.error # "" THEN odin.error ELSE "ODIN search failed",
          name |-> "query", specifications |-> {},
          news |-> <<>>]

\* The response body (server.js 229-319).
ApiResultOf(odin, uniqueNews) ==
  IF odin.success /\ odin.frontendData
    THEN [sent |-> TRUE, odinSuccess |-> TRUE,
          dataSource |-> "ODIN Military Intelligence", error |-> "",
          name |-> odin.name, specifications |-> odin.specificationsTab,
          news |-> NewsField(uniqueNews)]
    ELSE [sent |-> TRUE, odinSuccess |-> FALSE, dataSource |-> "News Only",
          error |-> IF odin.error # "" THEN odin.error ELSE "ODIN search failed",
          name |-> "query", specifications |-> {},
          news |-> NewsField(uniqueNews)]

\* Building and sending the response (server.js 222-323).
BuildResult ==
  /\ pc = "build"
  /\ apiResult' = ApiResultOf(odinResult, UniqueNews(fetched.regional, fetched.global))
  /\ pc' = "done"
  /\ UNCHANGED <<pageVars, loopVars, closeVars, histVars, odinResult, fetched>>
  /\ UNCHANGED <<container, normVars, popupVars, sideVars, gateVars, tabVars>>

\* ------------------------------------------------------- the result cache
\* Query strings a client may send (req.query.query), "" for a missing one,
\* and regions.
Queries == {"", "BrahMos", "brahmos", " BrahMos "}
Regions == {"IN", "US"}

\* `search_${query}_${region}` (server.js 195)
CacheKey(query, region) == "search_" \o query \o "_" \o region

CacheKeys == {CacheKey(q, r) : q \in Queries, r \in Regions}

\* cache.get of a key that holds nothing, and the entry cache.set stores:
\* the response body of a request that ran the extraction.
NoEntry == [cached |-> FALSE, query |-> "", odinSuccess |-> FALSE]
Entry(query, odinSuccess) ==
  [cached |-> TRUE, query |-> query, odinSuccess |-> odinSuccess]

NoServed ==
  [status |-> 0, query |-> "", region |-> "", fromCache |-> FALSE,
   body |-> NoEntry, keysBefore |-> {}]

\* One /api/search request as the cache sees it (server.js 187-200, 206-323):
\* 400 without a query; the cached body when cache.get(cacheKey) is truthy;
\* otherwise the extraction runs and its result, success or news only, is
\* stored under cacheKey and sent.
SearchRequest ==
  /\ \E query \in Queries, region \in Regions :
       LET cacheKey == CacheKey(query, region)
           cached   == cache[cacheKey]
           before   == {k \in CacheKeys : cache[k].cached}
       IN  IF query = ""
             THEN /\ served' = [status |-> 400, query |-> query,
                                region |-> region, fromCache |-> FALSE,
                                body |-> NoEntry, keysBefore |-> before]
                  /\ UNCHANGED cache
           ELSE IF cached.cached
             THEN /\ served' = [status |-> 200, query |-> query,
                                region |-> region, fromCache |-> TRUE,
                                body |-> cached, keysBefore |-> before]
                  /\ UNCHANGED cache
           ELSE \E odinSuccess \in BOOLEAN :
                  /\ cache' = [cache EXCEPT ![cacheKey] = Entry(query, odinSuccess)]
                  /\ served' = [status |-> 200, query |-> query,
                                region |-> region, fromCache |-> FALSE,
                                body |-> Entry(query, odinSuccess),
                                keysBefore |-> before]
  /\ UNCHANGED <<mainVars, regionVars, reportVars, scrapeVars>>

\* An entry reaches its time to live (stdTTL 3600, server.js 22).
CacheExpire ==
  /\ \E k \in CacheKeys :
       /\ cache[k].cached
       /\ cache' = [cache EXCEPT ![k] = NoEntry]
  /\ UNCHANGED served
  /\ UNCHANGED <<mainVars, regionVars, reportVars, scrapeVars>>

\* ----------------------------------------------------- the text report
\* Specification key sets of a merged record.
SpecKeyChoices ==
  { {}, {"Range", "Crew"},
    {"Length", "Max Speed", "Warhead Weight", "Payload", "Guidance", "Crew"} }

\* The objects of the data: a field that is absent is written as "" or << >>,
\* which the report tests the same way as undefined. The object {} has every
\* field absent; object is TRUE for every object.
EmptyCapabilities ==
  [object |-> TRUE, primaryRole |-> "", targetTypes |-> << >>,
   guidanceSystem |-> "", warheadType |-> ""]
EmptyAssessment ==
  [object |-> TRUE, strengths |-> << >>, limitations |-> << >>,
   counterMeasures |-> << >>]
EmptyIntelligence ==
  [object |-> TRUE, deploymentRegions |-> << >>, operationalRange |-> ""]

\* combatCapabilities (odinScraper.js 633-638): determinePrimaryRole always
\* names a role (685-692).
CapabilitiesChoices ==
  { [object |-> TRUE, primaryRole |-> "Multi-Role", targetTypes |-> << >>,
     guidanceSystem |-> "", warheadType |-> ""],
    [object |-> TRUE, primaryRole |-> "Anti-Ship Warfare",
     targetTypes |-> <<"Naval Vessels">>, guidanceSystem |-> "Radar",
     warheadType |-> "High Explosive"] }

\* strategicAssessment (odinScraper.js 641-645)
AssessmentChoices ==
  { [object |-> TRUE, strengths |-> <<"Long range">>,
     limitations |-> << >>, counterMeasures |-> << >>],
    [object |-> TRUE, strengths |-> <<"Long range">>,
     limitations |-> <<"Cost">>, counterMeasures |-> <<"Jamming">>] }

\* operationalIntelligence (odinScraper.js 625-630): operationalRange is
\* never empty ('Unknown' by default).
IntelligenceChoices ==
  { [object |-> TRUE, deploymentRegions |-> << >>,
     operationalRange |-> "Unknown"],
    [object |-> TRUE, deploymentRegions |-> <<"Asia-Pacific">>,
     operationalRange |-> "290 km"] }

ListChoices(x) == {<< >>, <<x>>}

\* The data of a successful extraction (server.js 235-285, 350-364) for a
\* merged record with the specification keys keys: the specifications are
\* formatReportForFrontend's specificationsTab.
OdinData(keys, capabilities, assessment, intelligence, notes, images, variants, operators) ==
  [equipment |-> [name |-> "BrahMos",
                  specifications |-> SpecificationsTab(keys),
                  intelligence |-> intelligence,
                  capabilities |-> capabilities,
                  assessment |-> assessment,
                  notes |-> notes],
   images |-> images, variants |-> variants, operators |-> operators,
   militaryReport |-> TRUE]

\* The record /api/search caches when the extraction failed (server.js
\* 287-318): it has no images and no _militaryReport field.
NewsOnlyData ==
  [equipment |-> [name |-> "BrahMos",
                  specifications |-> {},
                  intelligence |-> EmptyIntelligence,
                  capabilities |-> EmptyCapabilities,
                  assessment |-> EmptyAssessment,
                  notes |-> ""],
   images |-> << >>, variants |-> << >>, operators |-> << >>,
   militaryReport |-> FALSE]

\* No data: the request has not been made.
NoData ==
  [equipment |-> [name |-> "",
                  specifications |-> {},
                  intelligence |-> EmptyIntelligence,
                  capabilities |-> EmptyCapabilities,
                  assessment |-> EmptyAssessment,
                  notes |-> ""],
   images |-> << >>, variants |-> << >>, operators |-> << >>,
   militaryReport |-> FALSE]

\* The bucket of a specification key in generateEnhancedReport (server.js
\* 495-509): the chain of generateMilitaryReport without the sensors
\* keywords and with a last else.
ReportBucket(k) ==
  LET lowerKey == ToLowerCase(k)
  IN  IF IncludesAny(lowerKey, {"length", "diameter", "weight", "span"})
        THEN "dimensions"
      ELSE IF IncludesAny(lowerKey, {"range", "speed", "altitude", "mach"})
        THEN "performance"
      ELSE IF IncludesAny(lowerKey, {"warhead", "payload", "explosive"})
        THEN "armament"
      ELSE "other"

\* A heading of the report with the entries written under it.
Section(heading, entries) == [heading |-> heading, entries |-> entries]

\* if (cond) { heading and entries }
When(cond, heading, entries) ==
  IF cond THEN <<Section(heading, entries)>> ELSE << >>

Items(list) == {list[n] : n \in 1..Len(list)}

\* A bucket of section 3 (server.js 512-542): written when it has a key.
BucketSection(specifications, bucket, heading) ==
  LET keys == {k \in specifications : ReportBucket(k) = bucket}
  IN  When(keys # {}, heading, keys)

\* generateEnhancedReport (server.js 399-628): the headings in order. An
\* object, {} included, is truthy; a string is truthy when it is not empty.
GenerateEnhancedReport(data) ==
  LET equipment == data.equipment
      intel     == equipment.intelligence
      caps      == equipment.capabilities
      assess    == equipment.assessment
  IN  When(Len(data.images) > 0, "VISUAL INTELLIGENCE ASSETS", Items(data.images))
   \o When(data.militaryReport, "SECTION 1: EXECUTIVE SUMMARY", {})
   \o When(Len(data.operators) > 0, "SECTION 2: OPERATIONAL INTELLIGENCE",
           Items(data.operators))
   \o When(Len(data.variants) > 0, "2.2 IDENTIFIED VARIANTS", Items(data.variants))
   \o When(intel.object /\ Len(intel.deploymentRegions) > 0,
           "2.3 DEPLOYMENT REGIONS", Items(intel.deploymentRegions))
   \o When(intel.object /\ intel.operationalRange # "",
           "2.4 OPERATIONAL PARAMETERS", {intel.operationalRange})
   \o ( IF equipment.specifications # {}
          THEN <<Section("SECTION 3: TECHNICAL SPECIFICATIONS", {})>>
            \o BucketSection(equipment.specifications, "dimensions",
                             "3.1 PHYSICAL DIMENSIONS")
            \o BucketSection(equipment.specifications, "performance",
                             "3.2 PERFORMANCE CHARACTERISTICS")
            \o BucketSection(equipment.specifications, "armament",
                             "3.3 ARMAMENT SPECIFICATIONS")
            \o BucketSection(equipment.specifications, "other",
                             "3.4 ADDITIONAL SPECIFICATIONS")
          ELSE << >> )
   \o ( IF caps.object
          THEN <<Section("SECTION 4: COMBAT CAPABILITIES ASSESSMENT", {}),
                 Section("4.1 PRIMARY ROLE",
                         {IF caps.primaryRole # "" THEN caps.primaryRole
                                                   ELSE "Unknown"})>>
            \o When(Len(caps.targetTypes) > 0,
                    "4.2 TARGET ENGAGEMENT CAPABILITY", Items(caps.targetTypes))
            \o When(caps.guidanceSystem # "", "4.3 GUIDANCE & NAVIGATION",
                    {caps.guidanceSystem})
            \o When(caps.warheadType # "", "4.4 WARHEAD CONFIGURATION",
                    {caps.warheadType})
          ELSE << >> )
   \o ( IF assess.object
          THEN <<Section("SECTION 5: STRATEGIC ASSESSMENT", {})>>
            \o When(Len(assess.strengths) > 0, "5.1 TACTICAL ADVANTAGES",
                    Items(assess.strengths))
            \o When(Len(assess.limitations) > 0, "5.2 IDENTIFIED LIMITATIONS",
                    Items(assess.limitations))
            \o When(Len(assess.counterMeasures) > 0,
                    "5.3 RECOMMENDED COUNTERMEASURES",
                    Items(assess.counterMeasures))
          ELSE << >> )
   \o When(equipment.notes # "", "SECTION 6: DETAILED INTELLIGENCE NOTES",
           {equipment.notes})
   \o <<Section("REPORT METADATA", {})>>

\* Date readings in milliseconds.
Clock == {500 * k : k \in 0..MaxClock}

\* toLocaleString with timeStyle 'long' (server.js 413-417) shows whole
\* seconds; toISOString (617) shows milliseconds.
ToLocaleString(t) == [format |-> "locale", seconds |-> t \div 1000]
ToISOString(t) == [format |-> "iso", millis |-> t]

\* The two lines of the report text built from new Date(): the header line
\* (413) read at t1 and the footer line (617) read at t2.
ReportStamps(t1, t2) ==
  << [line |-> "REPORT GENERATED", value |-> ToLocaleString(t1)],
     [line |-> "Report Date", value |-> ToISOString(t2)] >>

NoRerun == [made |-> FALSE, report |-> << >>, stamps |-> << >>]

\* The report for data (server.js 374-376); keys are the specification keys
\* of the record the data was made from.
ReportFor(keys, data) ==
  /\ reportRecord' = keys
  /\ reportData' = data
  /\ report' = GenerateEnhancedReport(data)
  /\ \E t1 \in Clock, t2 \in Clock :
       /\ t1 <= t2
       /\ reportStamps' = ReportStamps(t1, t2)
  /\ UNCHANGED rerun
  /\ UNCHANGED <<mainVars, regionVars, cacheVars, scrapeVars>>

\* generateEnhancedReport called once more on the data of the last report,
\* at any later time.
GenerateAgain ==
  /\ reportData # NoData
  /\ ~rerun.made
  /\ \E t1 \in Clock, t2 \in Clock :
       /\ t1 <= t2
       /\ \A n \in 1..Len(reportStamps) :
            reportStamps[n].value.format = "iso" => reportStamps[n].value.millis <= t1
       /\ rerun' = [made |-> TRUE, report |-> GenerateEnhancedReport(reportData),
                    stamps |-> ReportStamps(t1, t2)]
  /\ UNCHANGED <<reportRecord, reportData, report, reportStamps>>
  /\ UNCHANGED <<mainVars, regionVars, cacheVars, scrapeVars>>

\* Data of a successful extraction, for every choice of its parts.
ReportOfOdinData ==
  \E keys \in SpecKeyChoices, capabilities \in CapabilitiesChoices,
     assessment \in AssessmentChoices, intelligence \in IntelligenceChoices,
     notes \in {"", "Supersonic cruise missile"},
     images \in ListChoices("img1"), variants \in ListChoices("Block II"),
     operators \in ListChoices("India") :
    ReportFor(keys, OdinData(keys, capabilities, assessment, intelligence,
                             notes, images, variants, operators))

\* /api/generate-report (server.js 337-394) when the cache holds the
\* /api/search result for the query: the result of a successful extraction
\* or the news-only record.
ReportFromCache ==
  /\ reportData = NoData
  /\ \/ ReportOfOdinData
     \/ ReportFor({}, NewsOnlyData)

\* /api/generate-report when the cache holds nothing and searchODIN
\* succeeds (server.js 349-364); without success the answer is 404 and no
\* report is made.
ReportFromOdin ==
  /\ reportData = NoData
  /\ ReportOfOdinData

\* ---------------------------------------------------- record normalisation
\* The detailed data path of lines 462-463 and 868-890: the object
\* {...cardData, ...modalData}, parseEquipmentData and the merge of searchODIN.

\* Tab contents as extractTabsContent returns them (lines 302-307): gridRows
\* hold (label, value) pairs with both non-empty (line 297), tables hold rows
\* of trimmed cells, any of which may be empty (line 285).
TabA == [gridRows |-> << <<"Range", "500 km">>, <<"Speed", "Mach 3">> >>,
         tables   |-> << >>]
TabB == [gridRows |-> << >>,
         tables   |-> << << <<"Warhead", "300 kg">> >> >>]
TabC == [gridRows |-> << <<"Range", "800 km">> >>,
         tables   |-> << << <<"", "n/a">>, <<"Notes">>,
                            <<"Speed", "Mach 5", "est">> >> >>]
TabFixtures == {TabA, TabB, TabC}

\* The tabs objects of an overlay, in Object.keys order.
TabSeqs == UNION {[1..n -> TabFixtures] : n \in 0..MaxTabs}

\* cardData (lines 407-414) and modalData (lines 358-361, null at 365;
\* basicData is null when the evaluate finds no modal, line 339).
CardData(title, imageUrl) == [title |-> title, imageUrl |-> imageUrl]
NullModal == [isNull |-> TRUE, basic |-> FALSE, title |-> "", imageUrl |-> "",
              tabs |-> << >>]
ModalData(basic, title, imageUrl, tabs) ==
  [isNull |-> FALSE, basic |-> basic, title |-> title, imageUrl |-> imageUrl,
   tabs |-> tabs]

\* What the patterns of extractVariants and extractOperators find in
\* JSON.stringify of the object: the country names that occur as words, and
\* the trimmed captures of the variant patterns in match order.
NoText == [words |-> {}, captures |-> << >>]
TextChoices ==
  { NoText,
    [words |-> {"India"}, captures |-> << >>],
    [words |-> {"Russia", "India"}, captures |-> <<"block ii", "mk", "block ii">>] }

\* {...cardData, ...modalData} (line 462): the fields of modalData replace
\* the card's, an empty string included; spreading null adds nothing.
Spread(card, md, text) ==
  [title    |-> IF md.isNull \/ ~md.basic THEN card.title ELSE md.title,
   imageUrl |-> IF md.isNull \/ ~md.basic THEN card.imageUrl ELSE md.imageUrl,
   tabs     |-> md.tabs,
   words    |-> text.words,
   captures |-> text.captures]

\* Mutant of Put: a key that is already set keeps its value.
Put_KeepFirst(m, k, v) ==
  [x \in (DOMAIN m) \cup {k} |-> IF x \in DOMAIN m THEN m[x] ELSE v]

\* specs[k] = v
Put(m, k, v) == [x \in (DOMAIN m) \cup {k} |-> IF x = k THEN v ELSE m[x]]

\* tabContent.gridRows.forEach(row => specs[row.label] = row.value)
RECURSIVE PutRows(_, _)
PutRows(m, rows) ==
  IF rows = << >> THEN m
  ELSE PutRows(Put(m, Head(rows)[1], Head(rows)[2]), Tail(rows))

\* table.forEach(row => { if (row.length >= 2) specs[row[0]] = row[1] })
RECURSIVE PutTable(_, _)
PutTable(m, table) ==
  IF table = << >> THEN m
  ELSE PutTable(IF Len(Head(table)) >= 2
                  THEN Put(m, Head(table)[1], Head(table)[2])
                  ELSE m,
                Tail(table))

RECURSIVE PutTables(_, _)
PutTables(m, tables) ==
  IF tables = << >> THEN m
  ELSE PutTables(PutTable(m, Head(tables)), Tail(tables))

\* Mutant of PutTab: the tables of a tab are not read.
PutTab_GridOnly(m, tab) == PutRows(m, tab.gridRows)

\* One tab of extractSpecifications: its gridRows, then its tables.
PutTab(m, tab) == PutTables(PutRows(m, tab.gridRows), tab.tables)

RECURSIVE PutTabs(_, _)
PutTabs(m, tabs) ==
  IF tabs = << >> THEN m
  ELSE PutTabs(PutTab(m, Head(tabs)), Tail(tabs))

\* extractSpecifications (lines 522-548)
ExtractSpecifications(data) == PutTabs(<< >>, data.tabs)

\* Excerpt of the countries list (lines 583-588), in its order.
Countries == <<"Russia", "India">>

\* extractOperators (lines 579-598)
ExtractOperators(data) ==
  LET found == SelectSeq(Countries, LAMBDA c : c \in data.words)
  IN  IF Len(found) > 0 THEN found ELSE <<"Unknown">>

\* variant.length of a capture
CaptureLength(v) == IF v = "mk" THEN 2 ELSE 8

\* The loop of lines 565-570: a capture is kept when its length is between 4
\* and 99 and it is not in the list yet.
RECURSIVE PushVariants(_, _)
PushVariants(variants, captures) ==
  IF captures = << >> THEN variants
  ELSE LET v == Head(captures)
       IN  PushVariants(
             IF /\ CaptureLength(v) < 100
                /\ CaptureLength(v) > 3
                /\ \A n \in 1..Len(variants) : variants[n] # v
               THEN Append(variants, v)
               ELSE variants,
             Tail(captures))

\* extractVariants (lines 553-574)
ExtractVariants(data) ==
  LET variants == PushVariants(<< >>, data.captures)
  IN  IF Len(variants) > 0 THEN variants ELSE <<"Standard variant">>

\* parseEquipmentData (lines 499-517) of a one-element array
ParseEquipmentData(rawData) ==
  LET primary == rawData[1]
  IN  [title          |-> primary.title,
       imageUrl       |-> primary.imageUrl,
       specifications |-> ExtractSpecifications(primary),
       variants       |-> ExtractVariants(primary),
       operators      |-> ExtractOperators(primary)]

\* ------------------------------------------- second revision of the scraper
\* The file defines searchODINWithModal, parseEquipmentData and searchODIN a
\* second time (lines 1247-1568); module.exports (1570) exports these.

\* A tab as extractTabsContent stores it, with its name and text.
OverviewTab == [name |-> "Overview", text |-> "Ramjet", rawText |-> "",
                gridRows |-> << <<"Range", "500 km">> >>, tables |-> << >>]
RawTextTab == [name |-> "Notes", text |-> "", rawText |-> "raw",
               gridRows |-> << >>, tables |-> << >>]

\* The objects pushed at lines 1325-1330: {...cardData, ...modalData, url,
\* cardIndex}. title, type, preview and imageUrl are '' when the card lacks
\* the element (1284-1287); tabs is missing when modalData is null.
RawCards ==
  [title : {"", "BrahMos"}, type : {"", "Cruise Missile"},
   preview : {"", "Supersonic"}, imageUrl : {"", "b.jpg"},
   tabs : {<< >>, <<OverviewTab, RawTextTab>>},
   words : {{}}, captures : {<< >>}]

\* descriptionParts (lines 1370-1385), one part per tab that has text or
\* rawText.
RECURSIVE DescriptionParts(_)
DescriptionParts(tabs) ==
  IF tabs = << >> THEN << >>
  ELSE LET tab == Head(tabs)
       IN  ( IF tab.text # "" THEN << <<tab.name, tab.text>> >>
             ELSE IF tab.rawText # "" THEN << <<tab.name, tab.rawText>> >>
             ELSE << >> )
           \o DescriptionParts(Tail(tabs))

\* descriptionParts.join('\n\n') || primary.preview || 'No description
\* available' (line 1387)
Description(primary) ==
  IF DescriptionParts(primary.tabs) # << >> THEN DescriptionParts(primary.tabs)
  ELSE IF primary.preview # "" THEN <<primary.preview>>
  ELSE <<"No description available">>

\* [primary.imageUrl, ...rawData.slice(1, 4).map(r => r.imageUrl)]
\* .filter(Boolean) (lines 1397-1400)
ImagesOf(rawData) ==
  SelectSeq([n \in 1..Min(Len(rawData), 4) |-> rawData[n].imageUrl],
            LAMBDA u : u # "")

NullEquipment == [isNull |-> TRUE]

\* parseEquipmentData of the second revision (lines 1362-1420)
ParseEquipmentData_Rev2(rawData) ==
  IF Len(rawData) = 0 THEN NullEquipment
  ELSE LET primary == rawData[1]
       IN  [isNull         |-> FALSE,
            name           |-> primary.title,
            type           |-> IF primary.type # "" THEN primary.type
                                                   ELSE "Military Equipment",
            description    |-> Description(primary),
            images         |-> ImagesOf(rawData),
            specifications |-> ExtractSpecifications(primary),
            variants       |-> ExtractVariants(primary),
            operators      |-> ExtractOperators(primary)]

NoScrapeResult == [returned |-> FALSE]

\* searchODINWithModal of the second revision (lines 1247-1357) settles: it
\* returns the objects of the iterations that reached results.push, none
\* when the page lists no card or every iteration ended in the catch block
\* (1332-1343), or it rethrows (1349-1351).
SearchODINWithModal_Rev2 ==
  /\ spc = "s_idle"
  /\ \/ /\ spc' = "s_threw"
        /\ UNCHANGED rawResults
     \/ /\ spc' = "s_scraped"
        /\ \E n \in 0..MaxCards : \E raw \in [1..n -> RawCards] :
             rawResults' = raw
  /\ UNCHANGED <<scrapeResult, mainVars, regionVars, cacheVars, reportVars>>

\* searchODIN of the second revision (lines 1535-1568) from the await on.
SearchODIN_Rev2 ==
  /\ spc \in {"s_scraped", "s_threw"}
  /\ scrapeResult' =
       IF spc = "s_threw"
         THEN [returned |-> TRUE, success |-> FALSE, error |-> "threw"]
         ELSE [returned |-> TRUE, success |-> TRUE,
               equipment |-> ParseEquipmentData_Rev2(rawResults),
               rawResults |-> rawResults]
  /\ spc' = "s_returned"
  /\ UNCHANGED <<rawResults, mainVars, regionVars, cacheVars, reportVars>>

\* Object.assign(target, source)
ObjectAssign(target, source) ==
  [x \in (DOMAIN target) \cup (DOMAIN source) |->
     IF x \in DOMAIN source THEN source[x] ELSE target[x]]

\* Array.from of a Set the elements of s were added to, in order.
RECURSIVE AddAll(_, _)
AddAll(set, s) ==
  IF s = << >> THEN set
  ELSE AddAll(IF \E n \in 1..Len(set) : set[n] = Head(s)
                THEN set ELSE Append(set, Head(s)),
              Tail(s))

\* results.map(r => r.imageUrl).filter(Boolean) (line 876)
Images(rs) ==
  SelectSeq([n \in 1..Len(rs) |-> rs[n].imageUrl], LAMBDA u : u # "")

\* The forEach of lines 883-887 over the results from index n on.
RECURSIVE MergeFrom(_, _, _)
MergeFrom(acc, rs, n) ==
  IF n > Len(rs) THEN acc
  ELSE MergeFrom(
         [acc EXCEPT
            !.specifications = ObjectAssign(acc.specifications, rs[n].specifications),
            !.operators = AddAll(acc.operators, rs[n].operators),
            !.variants = AddAll(acc.variants, rs[n].variants)],
         rs, n + 1)

NoMerged == [name |-> "", images |-> << >>, specifications |-> << >>,
             operators |-> << >>, variants |-> << >>]

\* mergedEquipment (lines 868-890)
MergeEquipment(rs) ==
  MergeFrom([name |-> rs[1].title, images |-> Images(rs),
             specifications |-> << >>, operators |-> << >>,
             variants |-> << >>],
            rs, 1)

\* parsed = parseEquipmentData([{...cardData, ...modalData}]);
\* results.push(parsed) (lines 462-463)
PushParsed(card, md, text) ==
  /\ npc = "collect"
  /\ Len(nraw) < MaxCards
  /\ nraw' = Append(nraw, [card |-> card, modal |-> md, text |-> text])
  /\ nresults' = Append(nresults, ParseEquipmentData(<<Spread(card, md, text)>>))
  /\ UNCHANGED <<npc, nmerged>>

\* A card whose overlay shows any tabs.
PushTabs ==
  /\ \E tabs \in TabSeqs :
       PushParsed(CardData("Card", ""), ModalData(TRUE, "Asset", "", tabs), NoText)
  /\ UNCHANGED <<pc, pageVars, loopVars, closeVars, histVars, apiVars, container,
               sideVars, tabVars, gateVars, popupVars>>

PreviewUrls == {"", "p1.jpg", "logo.png"}
HeroUrls == {"", "h1.jpg", "p1.jpg"}

\* A card with any preview image, overlay outcome, hero image and text.
PushMedia ==
  /\ \E preview \in PreviewUrls, text \in TextChoices,
        md \in {NullModal, ModalData(FALSE, "", "", << >>)}
               \cup {ModalData(TRUE, "Asset", u, << >>) : u \in HeroUrls} :
       PushParsed(CardData("Card", preview), md, text)
  /\ UNCHANGED <<pc, pageVars, loopVars, closeVars, histVars, apiVars, container,
               sideVars, tabVars, gateVars, popupVars>>

\* searchODIN from line 868 on, for a non-empty results array.
Merge ==
  /\ npc = "collect"
  /\ Len(nresults) > 0
  /\ nmerged' = MergeEquipment(nresults)
  /\ npc' = "merged"
  /\ UNCHANGED <<nraw, nresults>>
  /\ UNCHANGED <<pc, pageVars, loopVars, closeVars, histVars, apiVars, container,
               sideVars, tabVars, gateVars, popupVars>>

\* ----------------------------------------------------------- specification
\* No helper outside the request has been called.
SideIdle ==
  /\ regionCall = "none"
  /\ regionFeeds = << >>
  /\ regionOut = << >>
  /\ cache = [k \in CacheKeys |-> NoEntry]
  /\ served = NoServed
  /\ reportRecord = {}
  /\ reportData = NoData
  /\ report = << >>
  /\ reportStamps = << >>
  /\ rerun = NoRerun
  /\ spc = "s_idle"
  /\ rawResults = << >>
  /\ scrapeResult = NoScrapeResult

\* extractTabsContent is not running.
TabsIdle ==
  /\ tpc = "t_idle"
  /\ tabIndex = 0
  /\ tabCount = 0
  /\ tabsDone = << >>

\* No browser, no page, no card, no response.
PageIdle ==
  /\ SideIdle
  /\ popups = NoPopups
  /\ activePage = "none"
  /\ GateIdle
  /\ gateRuns = 0
  /\ TabsIdle
  /\ browser = "none"
  /\ gate = "unknown"
  /\ modal = 0
  /\ cards = 0
  /\ i = 0
  /\ results = <<>>
  /\ modalData = "unset"
  /\ tabKeys = {}
  /\ cpc = "idle"
  /\ closeCaller = "none"
  /\ closeResult = FALSE
  /\ closeButton = "unknown"
  /\ escPresses = 0
  /\ attempted = <<>>
  /\ lastProbe = "none"
  /\ outcome = NoCard
  /\ closeInvoked = FALSE
  /\ opsSinceClose = {}
  /\ prevStuck = FALSE
  /\ fetched = NoFetched
  /\ apiResult = NoApiResult
  /\ container = "unknown"

\* The request has arrived, nothing has run.
MainInit ==
  /\ pc = "api"
  /\ wm = "running"
  /\ wmError = ""
  /\ odinResult = NoOdinResult
  /\ PageIdle

\* The normalisation variables at rest.
NormIdle ==
  /\ npc = "idle"
  /\ nraw = <<>>
  /\ nresults = <<>>
  /\ nmerged = NoMerged

Init == MainInit /\ NormIdle

Next ==
  \/ ApiSearch
  \/ SearchODINWithModal
  \/ CloseAssetModal
  \/ SearchODIN
  \/ FetchNews
  \/ BuildResult

Spec == Init /\ [][Next]_vars

\* The news aggregation of a request whose searchODIN has returned: here
\* after puppeteer.launch rejected.
NewsInit ==
  /\ pc = "news"
  /\ wm = "threw"
  /\ wmError = "launch failed"
  /\ odinResult = OdinCaught("launch failed")
  /\ PageIdle
  /\ NormIdle

NewsNext == FetchAnyNews \/ BuildResult

NewsSpec == NewsInit /\ [][NewsNext]_vars

\* Normalisation of cards that differ in their tabs.
NormInit ==
  /\ MainInit
  /\ npc = "collect"
  /\ nraw = << >>
  /\ nresults = << >>
  /\ nmerged = NoMerged

TabsNext == PushTabs \/ Merge

TabsSpec == NormInit /\ [][TabsNext]_vars

\* Normalisation of cards that differ in images and text.
MediaNext == PushMedia \/ Merge

MediaSpec == NormInit /\ [][MediaNext]_vars

\* The per-region helpers, called on their own.
RegionNext == CallFetchNewsByTopic \/ CallMultiRegionSearch

RegionSpec == Init /\ [][RegionNext]_vars

\* A query on a page with more cards than the loop takes, each iteration of
\* the loop body taken as one step.
LoopNext ==
  \/ ApiSearch \/ InitBrowser \/ SetupPage \/ Goto \/ CloseDisclaimerModal
  \/ WaitResults \/ FetchAnyCards \/ LoopCheck \/ ProcessCard \/ BrowserClose
  \/ SearchODIN

LoopSpec == Init /\ [][LoopNext]_vars

\* The same query when every pending step is eventually carried out: each
\* await of the query settles, by its result or by its timeout, and the
\* event loop then runs the continuation.
LoopLiveSpec == Init /\ [][LoopNext]_vars /\ WF_vars(LoopNext)

\* A query during which the site opens secondary pages, each iteration of
\* the loop body taken as one step.
PopupNext ==
  \/ ApiSearch \/ InitBrowser \/ SetupPage \/ Goto \/ CloseDisclaimerModal
  \/ WaitResults \/ FetchCards \/ LoopCheck \/ ProcessListedCard \/ BrowserClose
  \/ SearchODIN \/ PopupOpens \/ PopupHandler

PopupSpec == Init /\ [][PopupNext]_vars

\* A query through the exported searchODIN.
ScrapeNext == SearchODINWithModal_Rev2 \/ SearchODIN_Rev2

ScrapeSpec == Init /\ [][ScrapeNext]_vars

\* Requests to /api/search over the life of the cache.
CacheNext == SearchRequest \/ CacheExpire

CacheSpec == Init /\ [][CacheNext]_vars

\* Requests to /api/generate-report.
ReportNext == ReportFromCache \/ ReportFromOdin \/ GenerateAgain

ReportSpec == Init /\ [][ReportNext]_vars

\* ================================================================= claims
Elems(s) == {s[n] : n \in 1..Len(s)}
StrictlyIncreasing(s) == \A a, b \in 1..Len(s) : a < b => s[a] < s[b]
CardFailed(k) == outcome[k] \in {"null", "threw"}
NoCardProcessed == \A k \in CardIdx : outcome[k] = "none"

\* C1: whenever closeAssetModal returns true, no '.asset-detail-modal' node
\* is in the page at the moment of return.
C1_ClosedMeansAbsent ==
  (cpc = "c_done" /\ closeResult = TRUE) => modal = 0

\* The strategies attempted so far are an increasing run of 1..4, 2..4
\* without a gap, and an absent probe has ended the call with true.
C2_OrderInv ==
  /\ Elems(attempted) \subseteq 1..4
  /\ StrictlyIncreasing(attempted)
  /\ (3 \in Elems(attempted) => 2 \in Elems(attempted))
  /\ (4 \in Elems(attempted) => 3 \in Elems(attempted))
  /\ (lastProbe = "absent" => cpc = "c_done" /\ closeResult = TRUE)

\* C2: the closing strategies are attempted in the order 1 (close control),
\* 2 (Escape), 3 (backdrop), 4 (forced removal), 2..4 without a gap; a probe
\* that finds the overlay absent ends the function with true, and a strategy
\* is attempted only while the last probe did not find the overlay absent.
C2_StrategyOrder ==
  /\ []C2_OrderInv
  /\ [][(Len(attempted') > Len(attempted)) =>
          /\ lastProbe # "absent"
          /\ cpc # "c_done"
          /\ attempted' = Append(attempted, attempted'[Len(attempted')])]_vars

C2_Witness ==
  /\ cpc = "c_done"
  /\ attempted = <<1, 2, 3>>
  /\ lastProbe = "absent"
  /\ closeResult = TRUE

\* C3: when all four strategies were attempted and the overlay is still in
\* the page, closeAssetModal returns false.
C3_ExhaustedReturnsFalse ==
  (cpc = "c_done" /\ attempted = <<1, 2, 3, 4>> /\ modal > 0)
    => closeResult = FALSE

C5_NoCascadeAbort ==
  pc = "finally" =>
    /\ \A k \in CardIdx :
         (CardFailed(k) /\ k + 1 < Min(cards, MaxCardsPerQuery))
           => outcome[k + 1] # "none"
    /\ (wm = "threw" => NoCardProcessed)

C5_Witness ==
  /\ pc = "finally"
  /\ wm = "returned"
  /\ outcome[0] = "null"
  /\ outcome[1] = "threw"

\* C6: when the loop goes on to the next card or the function returns, the
\* closing sequence has been invoked for the card just processed.
C6_CloseAlwaysInvoked ==
  (pc \in {"loop", "finally"} /\ i > 0) => closeInvoked

C6_Witness ==
  /\ pc = "loop"
  /\ i = 1
  /\ outcome[0] = "threw"
  /\ modalData = "unset"
  /\ closeInvoked

\* C7: after a card whose closing sequence ended with the overlay present,
\* the next card's activation click was preceded by a probe of the overlay
\* made after that closing sequence returned.
C7_ProbeBeforeNextClick ==
  (pc = "extract" /\ prevStuck) => "probeOverlay" \in opsSinceClose

\* C8: when extractModalData returned null for every processed card, the
\* response is marked as extraction failure, with an error description, and
\* the record holds only the query.
C8_AllNullIsFailure ==
  (/\ pc = "done"
   /\ ~NoCardProcessed
   /\ \A k \in CardIdx : outcome[k] \in {"none", "null"})
    => (/\ apiResult.odinSuccess = FALSE
        /\ apiResult.error # ""
        /\ apiResult.name = "query"
        /\ apiResult.specifications = {})

\* Identity of a news entry of the response, and the identities fetched.
OutKey(e) == IF e.url # "" THEN e.url ELSE e.title
FetchedKeys ==
  {NewsKey(a) : a \in Elems(fetched.regional) \cup Elems(fetched.global)}

\* C9: when no card was found, the response has odinSuccess false, an empty
\* specifications map, and one news entry for every identity among the
\* fetched articles (all of them, the count being below the cap of 20).
C9_ZeroCards ==
  (pc = "done" /\ NoCardProcessed) =>
    /\ apiResult.odinSuccess = FALSE
    /\ apiResult.specifications = {}
    /\ Len(apiResult.news) = Min(Cardinality(FetchedKeys), NewsCap)
    /\ (Cardinality(FetchedKeys) <= NewsCap =>
          {OutKey(e) : e \in Elems(apiResult.news)} = FetchedKeys)

C9_Witness ==
  /\ pc = "done"
  /\ wm = "returned"
  /\ results = <<>>
  /\ NoCardProcessed
  /\ Len(apiResult.news) = 3

\* C10: searchODIN always returns a result object to its caller; success
\* false comes with an error description, and an error thrown by
\* searchODINWithModal is reported as success false with its message.
C10_NeverThrows ==
  pc \in {"news", "build", "done"} =>
    /\ odinResult.returned
    /\ (odinResult.success = FALSE => odinResult.error # "")
    /\ (wm = "threw" => odinResult.success = FALSE /\ odinResult.error = wmError)

C10_Witness ==
  /\ pc = "done"
  /\ wm = "threw"
  /\ wmError = "Waiting for selector failed"
  /\ odinResult.returned
  /\ odinResult.success = FALSE

\* The status fields of the response (server.js 281-282, 315-317), and their
\* value when every card succeeded.
StatusOf(r) == <<r.odinSuccess, r.dataSource, r.error>>
FullSuccessStatus == <<TRUE, "ODIN Military Intelligence", "">>
SomeCardFailed == \E k \in CardIdx : CardFailed(k)
SomeCardOk == \E k \in CardIdx : outcome[k] = "ok"

\* C11: the status fields of the response tell a partially successful query
\* from a fully successful one: when some card failed and some card
\* succeeded, the status differs from the status of a query in which every
\* card succeeded.
C11_PartialIsDistinguished ==
  (pc = "done" /\ SomeCardFailed /\ SomeCardOk)
    => StatusOf(apiResult) # FullSuccessStatus

\* C12: when the bounded wait for the results container expires, the wait is
\* not started again and no card is processed: the query has failed, and
\* searchODIN returns success false with an error description.
C12_ResultsTimeoutFails ==
  container = "absent" =>
    /\ pc \in {"finally", "odin", "news", "build", "done"}
    /\ wm = "threw"
    /\ NoCardProcessed
    /\ results = << >>
    /\ (pc \in {"news", "build", "done"} =>
          /\ odinResult.returned
          /\ odinResult.success = FALSE
          /\ odinResult.error # "")

C12_Witness ==
  /\ pc = "done"
  /\ container = "absent"
  /\ odinResult.success = FALSE
  /\ odinResult.error = "Waiting for selector failed"
  /\ apiResult.odinSuccess = FALSE

\* C13: no specifications map has the empty string as a key: neither the map
\* extractSpecifications produces for a card nor the merged map of searchODIN.
C13_NoEmptyKey ==
  /\ \A n \in 1..Len(nresults) : "" \notin DOMAIN nresults[n].specifications
  /\ "" \notin DOMAIN nmerged.specifications

\* The (key, value) pairs of tabs in the order extractSpecifications reads
\* them: per tab the gridRows, then the table rows of two or more cells.
RECURSIVE Concat(_)
Concat(ss) == IF ss = << >> THEN << >> ELSE Head(ss) \o Concat(Tail(ss))
TabPairs(tab) ==
  LET rows == SelectSeq(Concat(tab.tables), LAMBDA row : Len(row) >= 2)
  IN  tab.gridRows \o [n \in 1..Len(rows) |-> <<rows[n][1], rows[n][2]>>]
TabsPairs(tabs) == Concat([n \in 1..Len(tabs) |-> TabPairs(tabs[n])])
Labels(pairs) == {pairs[n][1] : n \in 1..Len(pairs)}
ScenarioSpecifications ==
  [Range |-> "500 km", Speed |-> "Mach 3", Warhead |-> "300 kg"]

\* C14: the map extractSpecifications returns for a card has as keys exactly
\* the row labels and the first cells of the table rows with two or more
\* cells, over all tabs, each mapped to a value it is paired with; for the
\* tabs A = rows (Range, 500 km), (Speed, Mach 3) and B = table
\* [[Warhead, 300 kg]] it is {Range: 500 km, Speed: Mach 3, Warhead: 300 kg}.
C14_FoldAllRows ==
  \A n \in 1..Len(nresults) :
    LET specs == nresults[n].specifications
        pairs == TabsPairs(nraw[n].modal.tabs)
    IN  /\ DOMAIN specs = Labels(pairs)
        /\ \A k \in DOMAIN specs :
             \E j \in 1..Len(pairs) : pairs[j] = <<k, specs[k]>>
        /\ (nraw[n].modal.tabs = <<TabA, TabB>>
              => specs = ScenarioSpecifications)

C14_Witness ==
  /\ Len(nresults) = 1
  /\ nraw[1].modal.tabs = <<TabA, TabB>>
  /\ nresults[1].specifications = ScenarioSpecifications

\* The value of the last pair with key k.
LastValue(pairs, k) ==
  LET j == CHOOSE j \in 1..Len(pairs) :
             /\ pairs[j][1] = k
             /\ \A h \in (j + 1)..Len(pairs) : pairs[h][1] # k
  IN  pairs[j][2]
AllPairs == Concat([n \in 1..Len(nraw) |-> TabsPairs(nraw[n].modal.tabs)])

\* C15: a key that occurs several times keeps the value written last: within
\* a card the value of the tab read last, in the merged record the value of
\* the card processed last.
C15_LastWriteWins ==
  /\ \A n \in 1..Len(nresults) :
       \A k \in DOMAIN nresults[n].specifications :
         nresults[n].specifications[k]
           = LastValue(TabsPairs(nraw[n].modal.tabs), k)
  /\ (npc = "merged" =>
        /\ DOMAIN nmerged.specifications = Labels(AllPairs)
        /\ \A k \in DOMAIN nmerged.specifications :
             nmerged.specifications[k] = LastValue(AllPairs, k))

C15_Witness ==
  /\ npc = "merged"
  /\ Len(nraw) = 2
  /\ nraw[1].modal.tabs = <<TabA, TabC>>
  /\ nraw[2].modal.tabs = <<TabA>>
  /\ nresults[1].specifications["Range"] = "800 km"
  /\ nmerged.specifications["Range"] = "500 km"
  /\ nmerged.specifications["Speed"] = "Mach 3"

NoDuplicates(s) == \A a, b \in 1..Len(s) : a # b => s[a] # s[b]

\* C16: the images list of the merged record holds no URL twice.
C16_ImagesUnique ==
  npc = "merged" => NoDuplicates(nmerged.images)

\* A URL of the icon/logo pattern.
IsIconUrl(u) == u = "logo.png"

\* C17: the images list of the merged record holds every non-empty preview
\* image URL and every non-empty hero image URL of the processed cards, and
\* no URL of the icon/logo pattern.
C17_ImagesUnion ==
  npc = "merged" =>
    /\ \A n \in 1..Len(nraw) :
         LET preview == nraw[n].card.imageUrl
             md      == nraw[n].modal
         IN  /\ (preview # "" /\ ~IsIconUrl(preview))
                  => preview \in Elems(nmerged.images)
             /\ (~md.isNull /\ md.basic /\ md.imageUrl # "" /\ ~IsIconUrl(md.imageUrl))
                  => md.imageUrl \in Elems(nmerged.images)
    /\ \A u \in Elems(nmerged.images) : ~IsIconUrl(u)

\* A list that is the sentinel alone or holds no sentinel.
SentinelOrNone(s, sentinel) == s = <<sentinel>> \/ sentinel \notin Elems(s)

\* C18: the operators list and the variants list of the merged record hold
\* no duplicates, and each is its sentinel alone ('Unknown', 'Standard
\* variant') or holds no sentinel.
C18_ListsDedupSentinel ==
  npc = "merged" =>
    /\ NoDuplicates(nmerged.operators)
    /\ NoDuplicates(nmerged.variants)
    /\ SentinelOrNone(nmerged.operators, "Unknown")
    /\ SentinelOrNone(nmerged.variants, "Standard variant")

\* C19: the name of the merged record comes from a card whose overlay was
\* opened and extracted, whenever there is such a card among the results: a
\* card whose extraction returned null is not the primary card then.
C19_PrimaryOpened ==
  (pc \in {"news", "build", "done"}
     /\ odinResult.success
     /\ \E n \in 1..Len(results) : results[n].src = "modal")
    => odinResult.name = "modal"

\* The identities of the news entries of the response, in order.
NewsIdentities == [n \in 1..Len(apiResult.news) |-> OutKey(apiResult.news[n])]

\* C20: no two news entries of the response have the same identity (link,
\* or title when there is no link), and every identity among the fetched
\* articles is kept exactly once (the count being below the cap of 20).
C20_NewsUnique ==
  pc = "done" =>
    /\ NoDuplicates(NewsIdentities)
    /\ (Cardinality(FetchedKeys) <= NewsCap =>
          \A key \in FetchedKeys :
            Cardinality({n \in 1..Len(NewsIdentities) : NewsIdentities[n] = key}) = 1)

C20_Witness ==
  /\ pc = "done"
  /\ {A1, A2, A4} \subseteq Elems(fetched.regional)
  /\ A4 \in Elems(fetched.global)
  /\ Cardinality({n \in 1..Len(apiResult.news) : apiResult.news[n].url = "l1"}) = 1
  /\ Cardinality({n \in 1..Len(apiResult.news) :
                    apiResult.news[n] = [title |-> "t3", url |-> ""]}) = 1

\* The articles the three fetches of a fetchEquipmentNews call returned, and
\* the cap of the call.
RawArticles(call) ==
  UNION {Elems(fetched.feeds[call][k].items) : k \in 1..3}
CapOf(call) == IF call = "regional" THEN RegionalMax ELSE GlobalMax
Calls == {"regional", "global"}

\* C21: deduplication removes a fetched article only when an article of the
\* same identity (link, or title when it has no link) is retained: when the
\* cap of a fetchEquipmentNews call does not bind, every identity among the
\* fetched articles is in its result, so two articles with different links
\* are both kept.
C21_DedupByIdentity ==
  pc \in {"build", "done"} =>
    \A call \in Calls :
      Cardinality({a.title : a \in RawArticles(call)}) <= CapOf(call) =>
        \A a \in RawArticles(call) :
          \E b \in Elems(fetched[call]) : NewsKey(b) = NewsKey(a)

SortedDesc(s) ==
  \A n \in 1..(Len(s) - 1) : s[n].timestamp >= s[n + 1].timestamp
AllRawArticles == RawArticles("regional") \cup RawArticles("global")

\* The publish timestamp of a news entry of the response: that of the fetched
\* article with its title and link.
StampOf(e) ==
  (CHOOSE a \in AllRawArticles : a.title = e.title /\ a.link = e.url).timestamp

\* C22: the list each fetchEquipmentNews call returns and the news list of
\* the response are ordered newest first: no entry is older than its
\* successor.
C22_NewestFirst ==
  /\ (pc \in {"build", "done"} =>
        SortedDesc(fetched.regional) /\ SortedDesc(fetched.global))
  /\ (pc = "done" =>
        \A n \in 1..(Len(apiResult.news) - 1) :
          StampOf(apiResult.news[n]) >= StampOf(apiResult.news[n + 1]))

C22_Witness ==
  /\ pc = "done"
  /\ fetched.regional = <<Art(31)>>
  /\ Len(fetched.global) = GlobalMax
  /\ Len(apiResult.news) = GlobalMax + 1
  /\ apiResult.news[1].title = "n01"
  /\ apiResult.news[GlobalMax + 1].title = "n31"

\* C23: the response holds at most 20 news entries, and a fetched article
\* that a cap left out (neither its identity nor its title is in the list)
\* is not newer than any entry of the list.
C23_CapAfterSort ==
  pc = "done" =>
    /\ Len(apiResult.news) <= NewsCap
    /\ \A a \in AllRawArticles :
         (\A e \in Elems(apiResult.news) :
            OutKey(e) # NewsKey(a) /\ e.title # a.title)
           => \A e \in Elems(apiResult.news) : StampOf(e) >= a.timestamp

\* C24: a rejected fetch does not fail fetchEquipmentNews: its result holds
\* the titles of the fetches that resolved, all of them when the cap does
\* not bind, and it is empty only when no fetch returned an article.
C24_FetchFailureContained ==
  pc \in {"build", "done"} =>
    \A call \in Calls :
      LET titles == {a.title : a \in RawArticles(call)}
          out    == {b.title : b \in Elems(fetched[call])}
      IN  /\ out \subseteq titles
          /\ Len(fetched[call]) = Min(Cardinality(titles), CapOf(call))
          /\ (Cardinality(titles) <= CapOf(call) => out = titles)

C24_Witness ==
  /\ pc = "build"
  /\ fetched.feeds.regional = <<Feed(<<A1>>), Rejected, Feed(<<A2, A4>>)>>
  /\ fetched.feeds.global = <<Rejected, Feed(Block(1)), Feed(Block(3))>>
  /\ {b.title : b \in Elems(fetched.regional)} = {"t1", "t2", "t3"}
  /\ Len(fetched.global) = 7

\* ---- C25
\* The articles the call returned for region k.
RegionArticles(k) ==
  IF regionCall = "multiRegionSearch"
    THEN IF k \in DOMAIN regionOut THEN Elems(regionOut[k].articles) ELSE {}
    ELSE {a \in Elems(regionOut) : a.region = TopicRegions[k]}

\* C25: in fetchNewsByTopic and multiRegionSearch the failure of the fetch
\* for one region does not fail the aggregate: for every region whose fetch
\* resolved, the articles fetched for it are returned (in fetchNewsByTopic
\* up to the deduplication by link: an article with each fetched link is
\* returned).
C25_RegionFailureContained ==
  regionCall # "none" =>
    \A k \in DOMAIN regionFeeds :
      regionFeeds[k].ok =>
        \A a \in Elems(regionFeeds[k].items) :
          IF regionCall = "multiRegionSearch"
            THEN a \in RegionArticles(k)
            ELSE \E b \in Elems(regionOut) : b.link = a.link

\* ---- C26
\* The news fetches have been started (FetchNews is the step that starts
\* them and joins them).
NewsStarted == pc \in {"build", "done"}

\* C26: within one /api/search request the news fetches are started before
\* searchODIN has completed, and both are joined before the result is built:
\* whenever searchODIN has returned the news fetches have been started, and
\* a built response has the value of searchODIN and the fetched news.
C26_NewsConcurrentWithOdin ==
  /\ odinResult.returned => NewsStarted
  /\ pc = "done" => odinResult.returned /\ NewsStarted

\* ---- C27
\* Positions of the loop body at which an interaction for card i is issued
\* by searchODINWithModal itself.
CardSteps == {"refetch", "card_data", "click", "extract", "back_probe"}

\* C27: within one query at most one page interaction is in flight at a
\* time. closeAssetModal runs only while its caller waits for it at line 441
\* or 470, and never during the tab loop; the tab loop runs only while the
\* loop body waits at line 431; when the loop body issues an interaction for
\* card i, closeAssetModal is not running and every earlier card has ended
\* (extracted, null or thrown); and when tab j is named, clicked or read,
\* every earlier tab of the overlay has ended.
C27_OneInteractionAtATime ==
  /\ cpc # "idle" => pc \in {"close_main", "close_catch"} /\ tpc = "t_idle"
  /\ tpc # "t_idle" =>
       /\ pc = "extract"
       /\ cpc = "idle"
       /\ tabIndex < tabCount
       /\ Len(tabsDone) = tabIndex
  /\ pc \in CardSteps =>
       /\ cpc = "idle"
       /\ \A k \in 0..(i - 1) : outcome[k] # "none"
       /\ \A k \in i..(MaxCards - 1) : k > i => outcome[k] = "none"

\* The second tab of the second card's overlay is about to be clicked, after
\* the first card was extracted and closed and the first tab was recorded.
C27_Witness ==
  /\ pc = "extract"
  /\ tpc = "t_click"
  /\ i = 1
  /\ outcome[0] = "ok"
  /\ tabIndex = 1
  /\ tabsDone = <<"recorded">>

\* ---- C28
\* The query without surrounding whitespace and in lower case.
Canonical(q) == IF q = "" THEN "" ELSE "brahmos"

\* C28: the cache of /api/search treats the query case- and
\* whitespace-insensitively: a request whose region and canonical query are
\* those of an entry that was in the cache when it arrived is answered from
\* the cache, without a new extraction.
C28_CacheInsensitive ==
  served.status = 200 =>
    ( (\E q \in Queries :
         /\ Canonical(q) = Canonical(served.query)
         /\ CacheKey(q, served.region) \in served.keysBefore)
      => served.fromCache )

\* ---- C29
Headings == {report[n].heading : n \in 1..Len(report)}

ReportMade == reportData # NoData

\* C29: generateEnhancedReport renders a section only when its backing data
\* is non-empty: when the capabilities object, the assessment object, the
\* operators, the variants, the specifications or the notes of the data are
\* empty, the heading of the corresponding section is not in the report.
C29_EmptyMeansNoSection ==
  ReportMade =>
    /\ reportData.equipment.capabilities = EmptyCapabilities =>
         "SECTION 4: COMBAT CAPABILITIES ASSESSMENT" \notin Headings
    /\ reportData.equipment.assessment = EmptyAssessment =>
         "SECTION 5: STRATEGIC ASSESSMENT" \notin Headings
    /\ reportData.operators = << >> =>
         "SECTION 2: OPERATIONAL INTELLIGENCE" \notin Headings
    /\ reportData.variants = << >> =>
         "2.2 IDENTIFIED VARIANTS" \notin Headings
    /\ reportData.equipment.specifications = {} =>
         "SECTION 3: TECHNICAL SPECIFICATIONS" \notin Headings
    /\ reportData.equipment.notes = "" =>
         "SECTION 6: DETAILED INTELLIGENCE NOTES" \notin Headings

\* ---- C30
BucketHeadings ==
  {"3.1 PHYSICAL DIMENSIONS", "3.2 PERFORMANCE CHARACTERISTICS",
   "3.3 ARMAMENT SPECIFICATIONS", "3.4 ADDITIONAL SPECIFICATIONS"}

\* The bucket sections of the report that list the key k.
BucketsOf(k) ==
  {n \in 1..Len(report) :
     report[n].heading \in BucketHeadings /\ k \in report[n].entries}

\* C30: every specification key of the normalized record is delivered to
\* the caller in the specifications of the data and is listed in exactly
\* one bucket of the report (dimensions, performance, armament or the
\* catch-all), so no extracted specification is lost.
C30_EveryKeyInOneBucket ==
  ReportMade =>
    \A k \in reportRecord :
      /\ k \in reportData.equipment.specifications
      /\ Cardinality(BucketsOf(k)) = 1

\* ---- C31
\* closeDisclaimerModal has returned and its value is still in hand.
GateReturned == pc = "wait_results" /\ gateReturn # "none"

\* C31: when the gate element is present, closeDisclaimerModal tries its
\* four strategies in order, stops at the first one that performs a click,
\* and returns true only after a click was performed; when no strategy
\* finds a button to click it does not return true.
C31_DismissedOnlyAfterClick ==
  /\ \A n \in 1..Len(gateTried) : gateTried[n] = n
  /\ gateClicked # 0 =>
       /\ gateTried # << >>
       /\ gateTried[Len(gateTried)] = gateClicked
  /\ GateReturned => (gateReturn = "true" <=> gateClicked # 0)

\* ---- C32
\* C32: when the probe for the gate element times out, closeDisclaimerModal
\* raises no error and the query goes on to the wait for the results
\* container: right after the timeout the query is running at that wait,
\* and whenever the query has failed after a timeout the wait for the
\* results container had been reached.
C32_GateTimeoutNotFatal ==
  /\ (GateReturned /\ gate = "absent") => wm = "running" /\ wmError = ""
  /\ (gate = "absent" /\ wm = "threw") => container # "unknown"

\* The gate probe timed out and the cards of the results page were read.
C32_Witness ==
  /\ gate = "absent"
  /\ pc = "loop"
  /\ cards > 0
  /\ wm = "running"

\* ---- C33
\* Positions after the call of closeDisclaimerModal, up to the return of
\* searchODINWithModal.
AfterGate ==
  {"wait_results", "fetch_cards", "loop", "refetch", "card_data", "click",
   "extract", "close_main", "back_probe", "close_catch"}

\* C33: the gate dismissal protocol runs at most once per browser session,
\* and it has finished, with the gate dismissed or absent, before the wait
\* for the results container starts and before any card is clicked.
C33_GateOnceAndFinished ==
  /\ gateRuns <= 1
  /\ pc \in AfterGate =>
       /\ gateRuns = 1
       /\ gpc = 0
       /\ gate \in {"dismissed", "absent"}

\* ---- C34
\* C34: searchODINWithModal processes at most 10 cards per query however
\* many cards the page holds, and its results hold at most one entry per
\* processed card.
C34_AtMostTenCards ==
  /\ i <= MaxCardsPerQuery
  /\ Len(results) <= i \/ pc \in {"odin", "news"}
  /\ Len(results) <= MaxCardsPerQuery

\* The loop has ended on a page that holds more than ten cards, with ten
\* cards processed and ten results.
C34_Witness ==
  /\ pc = "finally"
  /\ wm = "returned"
  /\ cards = PageCards
  /\ i = MaxCardsPerQuery
  /\ Len(results) = MaxCardsPerQuery

\* ---- C35
\* C35: every tab control enumerated in an open overlay gets an entry in the
\* tabs map; a tab that yields no content is recorded, with empty content,
\* and is not treated as an error: no tab whose name, click and content were
\* evaluated without error ends without an entry.
C35_EveryTabRecorded ==
  \A n \in 1..Len(tabsDone) : tabsDone[n] \in {"recorded", "threw"}

\* C36: every secondary page that was opened is closed by the popup handler
\* (never left open by a rejected popup.close(), never still open when
\* browser.close() ends the session), and while the loop runs the query's
\* calls go to the page setupPage created.
C36_PopupsClosedByHandler ==
  /\ \A id \in PopupIds : popups[id] \in {"none", "open", "closed_by_handler"}
  /\ pc \in {"loop", "refetch"} => activePage = "page"

\* The clock-built lines on which two reports of the same data differ.
StampsThatDiffer ==
  {n \in 1..Len(reportStamps) : reportStamps[n] # rerun.stamps[n]}

\* C37: a second generateEnhancedReport on the same data gives the same
\* sections, and the two texts differ in at most one clock-built line.
C37_SameReportButOneStamp ==
  rerun.made =>
    /\ rerun.report = report
    /\ Cardinality(StampsThatDiffer) <= 1

\* The fields testSearch reads from result.equipment.
EquipmentFields ==
  {"name", "type", "description", "specifications", "images", "variants",
   "operators"}

\* C38: when the exported searchODIN returns success true, equipment is not
\* null and has name, type, description, specifications, images, variants
\* and operators.
C38_SuccessHasEquipment ==
  (scrapeResult.returned /\ scrapeResult.success) =>
    /\ ~scrapeResult.equipment.isNull
    /\ EquipmentFields \subseteq DOMAIN scrapeResult.equipment

\* ---- C39
\* C39: every query terminates: the card loop never gets past ten
\* iterations, whatever length the re-read card list has, and searchODIN
\* eventually returns.
C39_QueryTerminates ==
  /\ [](i <= MaxCardsPerQuery)
  /\ <>(odinResult.returned)

\* searchODIN has returned after the loop ran ten iterations that pushed.
C39_Witness ==
  /\ odinResult.returned
  /\ wm = "returned"
  /\ Len(results) = MaxCardsPerQuery

====
